---- MODULE Spec2Model ----
(***************************************************************************)
(* Model of the prompt store of cc-tracker (src/src/core/database/mod.rs): *)
(* the SQLite tables as state, one action per Database method, every SQL   *)
(* statement of a method applied in the order the method issues it.  Each  *)
(* statement commits on its own (the code opens no transaction), so a      *)
(* method that fails half-way keeps the effects of its earlier statements. *)
(***************************************************************************)
EXTENDS Integers, Sequences, FiniteSets, TLC

VARIABLES
    fk,                 \* whether the SQLite build enforces FOREIGN KEY clauses
    now,                \* the wall clock read by Utc::now()
    prompts,            \* table prompts: id -> row
    tags,               \* table tags: sequence of names, tag id = position
    prompt_tags,        \* table prompt_tags: set of <<prompt_id, tag_id>>
    quality_scores,     \* table quality_scores: sequence of rows
    efficiency_metrics, \* table efficiency_metrics: sequence of rows
    version_history,    \* table version_history: sequence of rows, rowid order
    sqlite_master,      \* the schema objects (tables, indexes, triggers) by name
    schema_version,     \* table schema_version, the migration ledger: sequence of rows
    cache,              \* a Cache<T>: its fields and the state of its RwLock
    threads,            \* the threads that call the cache: where each is in its call
    result              \* the last call and what it returned

vars == <<fk, now, prompts, tags, prompt_tags, quality_scores,
          efficiency_metrics, version_history, sqlite_master, schema_version,
          cache, threads, result>>

----------------------------------------------------------------------------
(* Bounds of the exploration *)

MaxNow == 1
MaxHistory == 3
MaxScores == 2

(* u64 <-> i64 casts of execution_time_ms, scaled down to 3 bits *)
U64Mod == 8

Ids == {"p1", "p2"}
(* Option<T>: None is the empty tuple, Some(x) the one-element tuple *)
None == <<>>
Some(x) == <<x>>

----------------------------------------------------------------------------
(* chrono::DateTime<Utc> <-> RFC 3339 text.  A DateTime is a number of     *)
(* half seconds; the text is the date, "T", the seconds field in two       *)
(* digits, ".500" when there is a fraction (SecondsFormat::AutoSi), and    *)
(* the offset "+00:00".  The calendar is scaled: a day has TicksPerDay     *)
(* half seconds and the date is written as the one digit of the day; the   *)
(* hour and minute are the same in every text and are left out.            *)

Digits == <<"0", "1", "2", "3", "4", "5", "6", "7", "8", "9">>

MaxDateTime == 19

TicksPerDay == 8

to_rfc3339(t) ==
    <<Digits[(t \div TicksPerDay) + 1], "T">>
    \o <<Digits[(((t % TicksPerDay) \div 2) \div 10) + 1],
         Digits[(((t % TicksPerDay) \div 2) % 10) + 1]>>
    \o (IF t % 2 = 1 THEN <<".", "5", "0", "0">> ELSE <<>>)
    \o <<"+", "0", "0", ":", "0", "0">>

parse_from_rfc3339(s) ==
    IF \E t \in 0..MaxDateTime : to_rfc3339(t) = s
    THEN CHOOSE t \in 0..MaxDateTime : to_rfc3339(t) = s
    ELSE now

(* byte value of a character, for SQLite's BINARY collation (memcmp) *)
Byte(ch) ==
    CASE ch = "+" -> 43
      [] ch = "." -> 46
      [] ch = ":" -> 58
      [] ch = "T" -> 84
      [] OTHER -> 47 + (CHOOSE i \in 1..10 : Digits[i] = ch)

RECURSIVE TextLE(_, _)
TextLE(a, b) ==
    IF a = <<>> THEN TRUE
    ELSE IF b = <<>> THEN FALSE
    ELSE IF Byte(Head(a)) < Byte(Head(b)) THEN TRUE
    ELSE IF Byte(Head(a)) > Byte(Head(b)) THEN FALSE
    ELSE TextLE(Tail(a), Tail(b))

(* execution_time_ms: `v as i64` on write, `v as u64` on read *)
as_i64(v) == IF v = None THEN None
             ELSE IF v[1] >= U64Mod \div 2 THEN Some(v[1] - U64Mod) ELSE v
as_u64(v) == IF v = None THEN None ELSE Some(v[1] % U64Mod)

----------------------------------------------------------------------------
(* The database as one value, so that the statements of a method compose. *)

DB == [prompts |-> prompts, tags |-> tags, prompt_tags |-> prompt_tags,
       quality_scores |-> quality_scores,
       efficiency_metrics |-> efficiency_metrics,
       version_history |-> version_history]

Commit(d) ==
    /\ prompts' = d.prompts
    /\ tags' = d.tags
    /\ prompt_tags' = d.prompt_tags
    /\ quality_scores' = d.quality_scores
    /\ efficiency_metrics' = d.efficiency_metrics
    /\ version_history' = d.version_history

Ok(d) == [db |-> d, ok |-> TRUE, err |-> ""]
Err(d, e) == [db |-> d, ok |-> FALSE, err |-> e]

Range(s) == {s[i] : i \in 1..Len(s)}

RECURSIVE SelectRows(_, _)
SelectRows(s, keep) ==
    IF s = <<>> THEN <<>>
    ELSE IF Head(s) \in keep
         THEN <<Head(s)>> \o SelectRows(Tail(s), keep)
         ELSE SelectRows(Tail(s), keep)

(* FOREIGN KEY (prompt_id) REFERENCES prompts(id): a child row may be      *)
(* inserted when enforcement is off or the parent exists.                  *)
ForeignKeyOk(d, prompt_id) == ~fk \/ prompt_id \in DOMAIN d.prompts

TagId(d, name) == CHOOSE i \in 1..Len(d.tags) : d.tags[i] = name

add_tag_to_prompt(d, prompt_id, tag) ==
    LET d1 == IF tag \in Range(d.tags) THEN d
              ELSE [d EXCEPT !.tags = Append(@, tag)]
        tag_id == TagId(d1, tag)
    IN  IF ForeignKeyOk(d1, prompt_id)
        THEN Ok([d1 EXCEPT !.prompt_tags = @ \cup {<<prompt_id, tag_id>>}])
        ELSE Err(d1, "DatabaseError")

(* for tag in &prompt.tags { self.add_tag_to_prompt(..)?; } *)
RECURSIVE add_tags(_, _, _)
add_tags(d, prompt_id, ts) ==
    IF ts = <<>> THEN Ok(d)
    ELSE LET r == add_tag_to_prompt(d, prompt_id, Head(ts))
         IN  IF r.ok THEN add_tags(r.db, prompt_id, Tail(ts)) ELSE r

RECURSIVE SortedSeq(_)
SortedSeq(S) ==
    IF S = {} THEN <<>>
    ELSE LET m == CHOOSE x \in S : \A y \in S : x <= y
         IN  <<m>> \o SortedSeq(S \ {m})

RECURSIVE MapTagNames(_, _)
MapTagNames(d, idSeq) ==
    IF idSeq = <<>> THEN <<>>
    ELSE <<d.tags[Head(idSeq)]>> \o MapTagNames(d, Tail(idSeq))

get_tags_for_prompt(d, prompt_id) ==
    MapTagNames(d, SortedSeq({l[2] : l \in {x \in d.prompt_tags : x[1] = prompt_id}}))

remove_no_tags_from_prompt(d, prompt_id) == d

remove_all_tags_from_prompt(d, prompt_id) ==
    [d EXCEPT !.prompt_tags = {l \in @ : l[1] # prompt_id}]

PromptRow(P) ==
    [content |-> P.content, content_hash |-> P.content_hash,
     category |-> P.category,
     created_at |-> to_rfc3339(P.created_at),
     updated_at |-> to_rfc3339(P.updated_at),
     model |-> P.metadata.model,
     execution_time_ms |-> as_i64(P.metadata.execution_time_ms)]

row_to_prompt(id, row) ==
    [id |-> id, content |-> row.content, content_hash |-> row.content_hash,
     category |-> row.category,
     created_at |-> parse_from_rfc3339(row.created_at),
     updated_at |-> parse_from_rfc3339(row.updated_at),
     tags |-> <<>>,
     metadata |-> [model |-> row.model,
                   execution_time_ms |-> as_u64(row.execution_time_ms)]]

create_prompt_or_replace(d, P) ==
    add_tags([d EXCEPT !.prompts =
                 [i \in DOMAIN @ \cup {P.id} |->
                     IF i = P.id THEN PromptRow(P) ELSE @[i]]],
             P.id, P.tags)

create_prompt(d, P) ==
    IF P.id \in DOMAIN d.prompts
    THEN Err(d, "DatabaseError")
    ELSE add_tags([d EXCEPT !.prompts =
                      [i \in DOMAIN @ \cup {P.id} |->
                          IF i = P.id THEN PromptRow(P) ELSE @[i]]],
                  P.id, P.tags)

(* row_to_prompt alone: tags: Vec::new(), never populated *)
get_prompt_without_tags(d, id) ==
    IF id \in DOMAIN d.prompts
    THEN Some(row_to_prompt(id, d.prompts[id]))
    ELSE None

get_prompt(d, id) ==
    IF id \in DOMAIN d.prompts
    THEN Some([row_to_prompt(id, d.prompts[id]) EXCEPT
                  !.tags = get_tags_for_prompt(d, id)])
    ELSE None

update_prompt(d, P) ==
    LET d1 == IF P.id \in DOMAIN d.prompts
              THEN [d EXCEPT !.prompts[P.id] =
                       [PromptRow(P) EXCEPT !.created_at = d.prompts[P.id].created_at]]
              ELSE d
    IN  add_tags(remove_all_tags_from_prompt(d1, P.id), P.id, P.tags)

delete_prompt(d, id) ==
    LET d1 == [d EXCEPT !.prompts = [i \in DOMAIN @ \ {id} |-> @[i]]]
    IN  IF fk
        THEN [d1 EXCEPT
                !.prompt_tags = {l \in @ : l[1] # id},
                !.quality_scores = SelectRows(@, {r \in Range(@) : r.prompt_id # id}),
                !.efficiency_metrics = SelectRows(@, {r \in Range(@) : r.prompt_id # id}),
                !.version_history = SelectRows(@, {r \in Range(@) : r.prompt_id # id})]
        ELSE d1

count_prompts(d) == Cardinality(DOMAIN d.prompts)

----------------------------------------------------------------------------
(* Quality scores and efficiency metrics: append-only child rows *)

save_quality_score(d, score) ==
    IF ForeignKeyOk(d, score.prompt_id)
    THEN Ok([d EXCEPT !.quality_scores = Append(@,
                [prompt_id |-> score.prompt_id,
                 total_score |-> score.total_score,
                 analyzed_at |-> to_rfc3339(score.analyzed_at)])])
    ELSE Err(d, "DatabaseError")

save_efficiency_metrics(d, metrics) ==
    IF ForeignKeyOk(d, metrics.prompt_id)
    THEN Ok([d EXCEPT !.efficiency_metrics = Append(@,
                [prompt_id |-> metrics.prompt_id,
                 efficiency_score |-> metrics.efficiency_score,
                 calculated_at |-> to_rfc3339(metrics.calculated_at)])])
    ELSE Err(d, "DatabaseError")

(* ORDER BY analyzed_at DESC LIMIT 1: a row no other row is newer than;    *)
(* among rows with the same text the engine returns the first it stored.   *)
LatestIndex(rows, prompt_id, col) ==
    LET mine == {i \in 1..Len(rows) : rows[i].prompt_id = prompt_id}
        top == {i \in mine : \A j \in mine : TextLE(rows[j][col], rows[i][col])}
    IN  IF mine = {} THEN 0 ELSE CHOOSE i \in top : \A j \in top : i <= j

get_quality_score(d, prompt_id) ==
    LET i == LatestIndex(d.quality_scores, prompt_id, "analyzed_at")
    IN  IF i = 0 THEN None
        ELSE Some([prompt_id |-> d.quality_scores[i].prompt_id,
                   total_score |-> d.quality_scores[i].total_score,
                   analyzed_at |-> parse_from_rfc3339(d.quality_scores[i].analyzed_at)])

get_efficiency_metrics(d, prompt_id) ==
    LET i == LatestIndex(d.efficiency_metrics, prompt_id, "calculated_at")
    IN  IF i = 0 THEN None
        ELSE Some([prompt_id |-> d.efficiency_metrics[i].prompt_id,
                   efficiency_score |-> d.efficiency_metrics[i].efficiency_score,
                   calculated_at |-> parse_from_rfc3339(d.efficiency_metrics[i].calculated_at)])

----------------------------------------------------------------------------
(* Version history *)

HistoryOf(d, prompt_id) ==
    {i \in 1..Len(d.version_history) : d.version_history[i].prompt_id = prompt_id}

NextVersionOfTable(d, prompt_id) == Len(d.version_history) + 1

(* SELECT COALESCE(MAX(version), 0) + 1 FROM version_history               *)
(* WHERE prompt_id = ?1                                                    *)
NextVersion(d, prompt_id) ==
    LET vs == {d.version_history[i].version : i \in HistoryOf(d, prompt_id)}
    IN  IF vs = {} THEN 1 ELSE (CHOOSE v \in vs : \A w \in vs : w <= v) + 1

(* a version_history table that had UNIQUE (prompt_id, version)             *)
UniqueVersion(d, prompt_id, version) ==
    /\ ForeignKeyOk(d, prompt_id)
    /\ \A i \in HistoryOf(d, prompt_id) : d.version_history[i].version # version

(* the constraints of the version_history table on a new row: the foreign  *)
(* key of prompt_id and nothing on (prompt_id, version)                    *)
VersionRowOk(d, prompt_id, version) == ForeignKeyOk(d, prompt_id)

(* INSERT INTO version_history (prompt_id, content, content_hash, version, *)
(* created_at), a statement of its own outside any transaction             *)
InsertVersion(d, P, version) ==
    IF VersionRowOk(d, P.id, version)
    THEN Ok([d EXCEPT !.version_history = Append(@,
                [prompt_id |-> P.id, content |-> P.content,
                 content_hash |-> P.content_hash,
                 version |-> version,
                 created_at |-> to_rfc3339(now)])])
    ELSE Err(d, "DatabaseError")

save_version(d, P) == InsertVersion(d, P, NextVersion(d, P.id))

(* ORDER BY version DESC over the rows of one prompt *)
RECURSIVE OrderByVersionDesc(_, _)
OrderByVersionDesc(d, idx) ==
    IF idx = {} THEN <<>>
    ELSE LET top == {i \in idx : \A j \in idx :
                        d.version_history[j].version <= d.version_history[i].version}
             i == CHOOSE i \in top : \A j \in top : i <= j
         IN  <<d.version_history[i]>> \o OrderByVersionDesc(d, idx \ {i})

get_version_history(d, prompt_id) ==
    OrderByVersionDesc(d, HistoryOf(d, prompt_id))

(* prompt.content = history.content; prompt.content_hash = ...;            *)
(* prompt.updated_at = Utc::now()                                          *)
RestoredPromptKeepsHash(prompt, history) ==
    [prompt EXCEPT !.content = history.content, !.updated_at = now]

RestoredPromptFresh(prompt, history) ==
    [prompt EXCEPT !.content = history.content,
                   !.content_hash = history.content_hash,
                   !.category = None,
                   !.updated_at = now]

RestoredPrompt(prompt, history) ==
    [prompt EXCEPT !.content = history.content,
                   !.content_hash = history.content_hash,
                   !.updated_at = now]

SnapshotBeforeRestoreSkipped(d, prompt) == Ok(d)

(* // Save current state before restore *)
SnapshotBeforeRestore(d, prompt) == save_version(d, prompt)

restore_version(d, prompt_id, version) ==
    LET found == {i \in HistoryOf(d, prompt_id) :
                     d.version_history[i].version = version}
    IN  IF found = {}
        THEN Err(d, "DatabaseError") @@ [val |-> None]
        ELSE
          LET history == d.version_history[CHOOSE i \in found : \A j \in found : i <= j]
              got == get_prompt(d, prompt_id)
              prompt == got[1]
          IN  IF got = None
              THEN Err(d, "DatabaseError") @@ [val |-> None]
              ELSE
                LET r1 == SnapshotBeforeRestore(d, prompt)
                    restored == RestoredPrompt(prompt, history)
                IN  IF ~r1.ok THEN r1 @@ [val |-> None]
                    ELSE LET r2 == update_prompt(r1.db, restored)
                         IN  IF r2.ok THEN r2 @@ [val |-> Some(restored)]
                             ELSE r2 @@ [val |-> None]

----------------------------------------------------------------------------
(* list_prompts: the query text is assembled clause by clause; a clause    *)
(* names its parameters by position in params_vec.                         *)

UpperCase == <<"A", "B", "C">>
LowerCase == <<"a", "b", "c">>

(* SQLite's LIKE folds the case of ASCII letters *)
Fold(ch) ==
    IF \E i \in 1..Len(UpperCase) : UpperCase[i] = ch
    THEN LowerCase[CHOOSE i \in 1..Len(UpperCase) : UpperCase[i] = ch]
    ELSE ch

(* text LIKE pattern: % matches any run of characters, _ any one character *)
RECURSIVE Like(_, _)
Like(pattern, text) ==
    IF pattern = <<>> THEN text = <<>>
    ELSE IF Head(pattern) = "%"
         THEN Like(Tail(pattern), text)
              \/ (text # <<>> /\ Like(pattern, Tail(text)))
    ELSE IF text = <<>> THEN FALSE
    ELSE IF Head(pattern) = "_" THEN Like(Tail(pattern), Tail(text))
    ELSE Fold(Head(pattern)) = Fold(Head(text)) /\ Like(Tail(pattern), Tail(text))

EmptyQuery == [conditions |-> <<>>, params_vec |-> <<>>]

Clause(q, kind, values) ==
    [conditions |-> Append(q.conditions,
                       [kind |-> kind,
                        at |-> [i \in 1..Len(values) |-> Len(q.params_vec) + i]]),
     params_vec |-> q.params_vec \o values]

CategoryClause(q, filter) ==
    IF filter.category # None
    THEN Clause(q, "p.category = ?", <<filter.category[1]>>) ELSE q

TagsClause(q, filter) ==
    IF filter.tags # <<>> THEN Clause(q, "t.name IN (?)", filter.tags) ELSE q

SearchClause(q, filter) ==
    IF filter.search_query # None
    THEN Clause(q, "p.content LIKE ?", <<<<"%">> \o filter.search_query[1] \o <<"%">>>>)
    ELSE q

DateFromClause(q, filter) ==
    IF filter.date_from # None
    THEN Clause(q, "p.created_at >= ?", <<to_rfc3339(filter.date_from[1])>>) ELSE q

DateToClause(q, filter) ==
    IF filter.date_to # None
    THEN Clause(q, "p.created_at <= ?", <<to_rfc3339(filter.date_to[1])>>) ELSE q

BuildQuery(filter) ==
    DateToClause(DateFromClause(SearchClause(TagsClause(
        CategoryClause(EmptyQuery, filter), filter), filter), filter), filter)

(* a list_prompts that joined the latest quality score of each prompt and  *)
(* kept the rows inside the filter's score range                           *)
JoinedRowsInScoreRange(d, filter) ==
    LET InRange(id) ==
            /\ filter.min_quality_score # None
                  => /\ get_quality_score(d, id) # None
                     /\ get_quality_score(d, id)[1].total_score
                            >= filter.min_quality_score[1]
            /\ filter.max_quality_score # None
                  => /\ get_quality_score(d, id) # None
                     /\ get_quality_score(d, id)[1].total_score
                            <= filter.max_quality_score[1]
    IN  IF filter.tags # <<>>
        THEN {[id |-> l[1], name |-> d.tags[l[2]]] :
                 l \in {x \in d.prompt_tags : x[1] \in DOMAIN d.prompts /\ InRange(x[1])}}
        ELSE {[id |-> i, name |-> ""] : i \in {j \in DOMAIN d.prompts : InRange(j)}}

(* FROM prompts p [JOIN prompt_tags pt ... JOIN tags t ...] *)
JoinedRows(d, filter) ==
    IF filter.tags # <<>>
    THEN {[id |-> l[1], name |-> d.tags[l[2]]] :
             l \in {x \in d.prompt_tags : x[1] \in DOMAIN d.prompts}}
    ELSE {[id |-> i, name |-> ""] : i \in DOMAIN d.prompts}

Holds(d, c, params_vec, jr) ==
    CASE c.kind = "p.category = ?" ->
            /\ d.prompts[jr.id].category # None
            /\ d.prompts[jr.id].category[1] = params_vec[c.at[1]]
      [] c.kind = "t.name IN (?)" ->
            \E k \in 1..Len(c.at) : jr.name = params_vec[c.at[k]]
      [] c.kind = "p.content LIKE ?" ->
            Like(params_vec[c.at[1]], d.prompts[jr.id].content)
      [] c.kind = "p.created_at >= ?" ->
            TextLE(params_vec[c.at[1]], d.prompts[jr.id].created_at)
      [] c.kind = "p.created_at <= ?" ->
            TextLE(d.prompts[jr.id].created_at, params_vec[c.at[1]])

(* SELECT DISTINCT p.* ... WHERE c1 AND c2 ...: the ids of the rows kept *)
Selected(d, filter) ==
    LET q == BuildQuery(filter)
    IN  {jr.id : jr \in {x \in JoinedRows(d, filter) :
                    \A k \in 1..Len(q.conditions) :
                        Holds(d, q.conditions[k], q.params_vec, x)}}

(* ORDER BY p.created_at DESC; rows with the same created_at come in the   *)
(* order the engine happens to produce, here a fixed one                   *)
RECURSIVE OrderByCreatedDesc(_, _)
OrderByCreatedDesc(d, ids) ==
    IF ids = {} THEN <<>>
    ELSE LET top == CHOOSE i \in ids : \A j \in ids :
                        TextLE(d.prompts[j].created_at, d.prompts[i].created_at)
         IN  <<top>> \o OrderByCreatedDesc(d, ids \ {top})

(* LIMIT n OFFSET k; LIMIT -1 when only the offset is given *)
LimitOffset(rows, filter) ==
    LET k == IF filter.offset # None THEN filter.offset[1] ELSE 0
        rest == SubSeq(rows, k + 1, Len(rows))
    IN  IF filter.limit # None /\ filter.limit[1] < Len(rest)
        THEN SubSeq(rest, 1, filter.limit[1]) ELSE rest

(* limit and offset are usize values written into the statement text as   *)
(* decimal literals; a literal above the largest i64 is read as a REAL,    *)
(* which LIMIT and OFFSET reject ("datatype mismatch") when the statement  *)
(* is stepped                                                              *)
I64Max == (U64Mod \div 2) - 1

IntegerLiteral(v) == v = None \/ v[1] <= I64Max

list_prompts(d, filter) ==
    IF ~(IntegerLiteral(filter.limit) /\ IntegerLiteral(filter.offset))
    THEN [ok |-> FALSE, err |-> "DatabaseError", val |-> << >>]
    ELSE LET ids == LimitOffset(OrderByCreatedDesc(d, Selected(d, filter)), filter)
         IN  [ok |-> TRUE, err |-> "",
              val |-> [k \in 1..Len(ids) |-> get_prompt(d, ids[k])[1]]]

----------------------------------------------------------------------------
(* The schema.  initialize_schema creates the tables and indexes of the    *)
(* record store, each with IF NOT EXISTS.                                   *)

InitialSchema ==
    {"prompts", "tags", "prompt_tags", "quality_scores", "efficiency_metrics",
     "version_history",
     "idx_prompts_created_at", "idx_prompts_category", "idx_prompts_content_hash",
     "idx_quality_scores_prompt_id", "idx_efficiency_metrics_prompt_id",
     "idx_version_history_prompt_id"}

initialize_schema(objects) == objects \cup InitialSchema

----------------------------------------------------------------------------
(* The migration manager (migration/mod.rs) on a connection: the schema    *)
(* objects and the ledger table schema_version.  A statement of a run may   *)
(* fail (disk full, read-only file, a module the SQLite build lacks); the   *)
(* fault of a run names the statement that does.                            *)

CURRENT_VERSION == 2

M == [objects |-> sqlite_master, ledger |-> schema_version]

NoFault == [step |-> "none", version |-> 0, done |-> 0]

(* the body of a migration fails after `done` of its statements, or the    *)
(* INSERT of its ledger row fails                                           *)
Faults ==
    {NoFault}
    \cup {[step |-> "body", version |-> v, done |-> n] :
             v \in 1..CURRENT_VERSION, n \in {0, 1}}
    \cup {[step |-> "ledger", version |-> v, done |-> 0] : v \in 1..CURRENT_VERSION}

(* CREATE TABLE IF NOT EXISTS schema_version *)
ensure_schema_version_table(m) ==
    [m EXCEPT !.objects = @ \cup {"schema_version"}]

Max(S) == CHOOSE x \in S : \A y \in S : y <= x

(* SELECT COALESCE(MAX(version), 0) FROM schema_version *)
get_current_version(m) ==
    IF m.ledger = << >> THEN 0
    ELSE Max({m.ledger[i].version : i \in 1..Len(m.ledger)})

(* INSERT INTO schema_version; version is the primary key *)
set_version_unrecorded(m, version, fault) ==
    [m |-> m, ok |-> TRUE, err |-> ""]

set_version(m, version, fault) ==
    IF \/ (fault.step = "ledger" /\ fault.version = version)
       \/ \E i \in 1..Len(m.ledger) : m.ledger[i].version = version
    THEN [m |-> m, ok |-> FALSE, err |-> "DatabaseError"]
    ELSE [m |-> [m EXCEPT !.ledger =
                    Append(@, [version |-> version, applied_at |-> now])],
          ok |-> TRUE, err |-> ""]

(* the objects the statements of the two bodies create, in their order *)
V1Body ==
    <<"prompts", "tags", "prompt_tags", "quality_scores", "efficiency_metrics",
      "version_history",
      "idx_prompts_created_at", "idx_prompts_category", "idx_prompts_content_hash",
      "idx_prompts_status",
      "idx_quality_scores_prompt_id", "idx_efficiency_metrics_prompt_id",
      "idx_version_history_prompt_id">>

V2Body ==
    <<"prompts_fts", "prompts_fts_insert", "prompts_fts_delete", "prompts_fts_update">>

(* execute_batch: the statements run one by one, each committing on its    *)
(* own, up to the one that fails                                            *)
execute_batch(m, body, version, fault) ==
    IF fault.step = "body" /\ fault.version = version
    THEN [m |-> [m EXCEPT !.objects = @ \cup {body[i] : i \in 1..fault.done}],
          ok |-> FALSE, err |-> "DatabaseError"]
    ELSE [m |-> [m EXCEPT !.objects = @ \cup Range(body)], ok |-> TRUE, err |-> ""]

(* skipped when the table prompts exists *)
migration_v1(m, fault) ==
    IF "prompts" \in m.objects
    THEN [m |-> m, ok |-> TRUE, err |-> ""]
    ELSE execute_batch(m, V1Body, 1, fault)

migration_v2(m, fault) == execute_batch(m, V2Body, 2, fault)

run_migration(m, version, fault) ==
    CASE version = 1 -> migration_v1(m, fault)
      [] version = 2 -> migration_v2(m, fault)
      [] OTHER -> [m |-> m, ok |-> FALSE, err |-> "DatabaseError"]

(* the `?` after a step of the loop: the run goes on when the step is Ok *)
TryIgnoringErr(r) == TRUE

Try(r) == r.ok

(* for version in (current_version + 1)..=CURRENT_VERSION *)
RECURSIVE MigrateFrom(_, _, _)
MigrateFrom(st, version, fault) ==
    IF version > CURRENT_VERSION THEN st
    ELSE LET b == run_migration(st.m, version, fault)
         IN  IF ~Try(b)
             THEN [st EXCEPT !.m = b.m, !.ok = FALSE, !.err = b.err]
             ELSE LET l == set_version(b.m, version, fault)
                      st1 == [st EXCEPT !.m = l.m, !.applied = Append(@, version)]
                  IN  IF ~Try(l)
                      THEN [st1 EXCEPT !.ok = FALSE, !.err = l.err]
                      ELSE MigrateFrom(st1, version + 1, fault)

run_migrations(m, fault) ==
    LET m1 == ensure_schema_version_table(m)
        current_version == get_current_version(m1)
        st == [m |-> m1, ok |-> TRUE, err |-> "", applied |-> << >>]
    IN  IF current_version < CURRENT_VERSION
        THEN MigrateFrom(st, current_version + 1, fault)
        ELSE st

needs_migration(m) ==
    LET m1 == ensure_schema_version_table(m)
    IN  [m |-> m1, ok |-> TRUE, err |-> "",
         val |-> get_current_version(m1) < CURRENT_VERSION]

(* SELECT version, applied_at FROM schema_version ORDER BY version *)
get_migration_history(m) ==
    LET m1 == ensure_schema_version_table(m)
        versions == SortedSeq({m1.ledger[i].version : i \in 1..Len(m1.ledger)})
        Row(v) == CHOOSE i \in 1..Len(m1.ledger) : m1.ledger[i].version = v
    IN  [m |-> m1, ok |-> TRUE, err |-> "",
         val |-> [k \in 1..Len(versions) |->
                     <<versions[k], m1.ledger[Row(versions[k])].applied_at>>]]

----------------------------------------------------------------------------
(* Trend analysis: get_daily_trends *)

(* SQLite's date(text): the date of an RFC 3339 text *)
sql_date(text) == <<text[1]>>

(* date('now', '-N days'), for a window that starts on a day of the        *)
(* calendar                                                                 *)
date_now(days) == <<Digits[(now \div TicksPerDay) - days + 1]>>

(* the rows of a child table that LEFT JOIN gives for a prompt: the places *)
(* of its rows, or one NULL row (place 0) when it has none                  *)
LeftJoin(rows, prompt_id) ==
    LET mine == {i \in 1..Len(rows) : rows[i].prompt_id = prompt_id}
    IN  IF mine = {} THEN {0} ELSE mine

(* FROM prompts p LEFT JOIN quality_scores q .. LEFT JOIN                  *)
(* efficiency_metrics e .. WHERE p.created_at >= date('now', ..)            *)
TrendRows(d, days) ==
    UNION {{<<id, q, e>> : q \in LeftJoin(d.quality_scores, id),
                          e \in LeftJoin(d.efficiency_metrics, id)} :
           id \in {i \in DOMAIN d.prompts :
                      TextLE(date_now(days), d.prompts[i].created_at)}}

RECURSIVE Total(_, _)
Total(J, val) ==
    IF J = {} THEN 0
    ELSE LET j == CHOOSE x \in J : TRUE
         IN  val[j] + Total(J \ {j}, val)

(* COALESCE(AVG(..), 0) over the rows where the column is not NULL; the    *)
(* average is kept as the fraction num / den                                *)
COALESCE_AVG(J, val) ==
    IF J = {} THEN [num |-> 0, den |-> 1]
    ELSE [num |-> Total(J, val), den |-> Cardinality(J)]

(* one group of GROUP BY date(p.created_at) *)
TrendDataPoint(d, G, day) ==
    [date |-> day,
     count |-> Cardinality(G),
     avg_quality |->
         COALESCE_AVG({j \in G : j[2] # 0},
                      [j \in {x \in G : x[2] # 0} |-> d.quality_scores[j[2]].total_score]),
     avg_efficiency |->
         COALESCE_AVG({j \in G : j[3] # 0},
                      [j \in {x \in G : x[3] # 0} |->
                          d.efficiency_metrics[j[3]].efficiency_score])]

(* the number a one-digit date is written from *)
DayNumber(day) == (CHOOSE i \in 1..Len(Digits) : Digits[i] = day[1]) - 1

(* GROUP BY date(p.created_at) ORDER BY date(p.created_at) *)
get_daily_trends(d, days) ==
    LET J == TrendRows(d, days)
        order == SortedSeq({DayNumber(sql_date(d.prompts[j[1]].created_at)) : j \in J})
    IN  [k \in 1..Len(order) |->
            TrendDataPoint(d, {j \in J : DayNumber(sql_date(d.prompts[j[1]].created_at))
                                            = order[k]},
                           <<Digits[order[k] + 1]>>)]

----------------------------------------------------------------------------
(* The cache: Cache<T> with its HashMap behind an RwLock.  An Instant is   *)
(* the clock now; a Duration of ttl_secs seconds is a number of ticks of    *)
(* the clock, and the Instants end at I64Max as the u64 number of seconds   *)
(* ends at U64Mod - 1.                                                      *)

Threads == {"t1", "t2"}

Keys == {"k1", "k2", "k3"}

(* a thread between two calls *)
Idle == [pc |-> "idle", key |-> "", value |-> 0, before |-> None]

(* Cache::new(ttl_secs, max_size).  writer and readers are the guards of   *)
(* the RwLock that are held, poisoned is its poison flag.  order is not a   *)
(* field of the program: it lists the keys of the map from the entry that   *)
(* was inserted first to the one inserted last.                             *)
Cache_new(ttl_secs, max_size) ==
    [data |-> << >>, ttl |-> ttl_secs, max_size |-> max_size,
     writer |-> None, readers |-> {}, poisoned |-> FALSE, order |-> << >>]

(* HashMap::retain / HashMap::remove *)
Retain(data, keep) == [k \in DOMAIN data \cap keep |-> data[k]]

(* HashMap::insert *)
Insert(data, key, entry) ==
    [k \in DOMAIN data \cup {key} |-> IF k = key THEN entry ELSE data[k]]

(* data.retain(|_, entry| entry.expires_at > now) *)
evict_expired(data, instant) ==
    Retain(data, {k \in DOMAIN data : data[k].expires_at > instant})

AboveCapacity(c) == Cardinality(DOMAIN c.data) > c.max_size

(* data.len() >= self.max_size *)
AtCapacity(c) == Cardinality(DOMAIN c.data) >= c.max_size

(* the keys of order that are still in the map; key, when given, last *)
Reorder(order, data, key) ==
    SelectRows(order, (DOMAIN data) \ {key})
    \o (IF key \in DOMAIN data THEN <<key>> ELSE << >>)

(* self.data.read(): a read guard is given while no write guard is held *)
CanRead(c) == c.writer = None

(* self.data.write(): the write guard is given while no guard is held *)
CanWrite(c) == c.writer = None /\ c.readers = {}

----------------------------------------------------------------------------
(* Calls.  Each action is one call of a Database method on the single      *)
(* connection; result records the call and what it returned.               *)

Call(op, id, ver, r, val, pre) ==
    [op |-> op, id |-> id, ver |-> ver, ok |-> r.ok, err |-> r.err,
     val |-> val, pre |-> pre]

MkPrompt(id, content, content_hash, category, tgs, created_at, updated_at, metadata) ==
    [id |-> id, content |-> content, content_hash |-> content_hash,
     category |-> category, tags |-> tgs, created_at |-> created_at,
     updated_at |-> updated_at, metadata |-> metadata]

DefaultMetadata == [model |-> "claude-3-5-sonnet", execution_time_ms |-> None]

(* what a call remembers of the call before it *)
Previous ==
    [op |-> result.op, id |-> result.id, ok |-> result.ok,
     live |-> IF result.op \in {"update_prompt", "restore_version"}
              THEN result.pre.live ELSE None,
     n |-> IF result.op = "restore_version" THEN Len(result.pre.history) ELSE 0]

Tick ==
    /\ now < MaxNow
    /\ now' = now + 1
    /\ result' = [op |-> "tick", id |-> "", ver |-> 0, ok |-> TRUE, err |-> "",
                  val |-> None, pre |-> None]
    /\ UNCHANGED <<fk, prompts, tags, prompt_tags, quality_scores,
                   efficiency_metrics, version_history,
                   sqlite_master, schema_version, cache, threads>>

CreatePrompt(P) ==
    LET r == create_prompt(DB, P)
    IN  /\ Commit(r.db)
        /\ result' = Call("create_prompt", P.id, 0, r, Some(P),
                          [live |-> get_prompt(DB, P.id), tags |-> tags,
                           count |-> count_prompts(DB), prev |-> Previous])
        /\ UNCHANGED <<fk, now, sqlite_master, schema_version, cache, threads>>

UpdatePrompt(P) ==
    LET r == update_prompt(DB, P)
    IN  /\ Commit(r.db)
        /\ result' = Call("update_prompt", P.id, 0, r, Some(P),
                          [live |-> get_prompt(DB, P.id),
                           others |-> [i \in Ids \ {P.id} |-> get_tags_for_prompt(DB, i)]])
        /\ UNCHANGED <<fk, now, sqlite_master, schema_version, cache, threads>>

DeletePrompt(id) ==
    /\ Commit(delete_prompt(DB, id))
    /\ result' = Call("delete_prompt", id, 0, Ok(DB), None, None)
    /\ UNCHANGED <<fk, now, sqlite_master, schema_version, cache, threads>>

SaveVersion(P) ==
    /\ Len(version_history) < MaxHistory
    /\ LET r == save_version(DB, P)
       IN  /\ Commit(r.db)
           /\ result' = Call("save_version", P.id, 0, r, None, None)
    /\ UNCHANGED <<fk, now, sqlite_master, schema_version, cache, threads>>

RestoreVersion(id, version) ==
    /\ Len(version_history) < MaxHistory
    /\ LET r == restore_version(DB, id, version)
       IN  /\ Commit(r.db)
           /\ result' = Call("restore_version", id, version, r, None,
                             [live |-> get_prompt(DB, id),
                              history |-> get_version_history(DB, id),
                              prev |-> Previous, db |-> DB])
    /\ UNCHANGED <<fk, now, sqlite_master, schema_version, cache, threads>>

SaveQualityScore(score) ==
    /\ Len(quality_scores) < MaxScores
    /\ LET r == save_quality_score(DB, score)
       IN  /\ Commit(r.db)
           /\ result' = Call("save_quality_score", score.prompt_id, 0, r, None, None)
    /\ UNCHANGED <<fk, now, sqlite_master, schema_version, cache, threads>>

SaveEfficiencyMetrics(metrics) ==
    /\ Len(efficiency_metrics) < MaxScores
    /\ LET r == save_efficiency_metrics(DB, metrics)
       IN  /\ Commit(r.db)
           /\ result' = Call("save_efficiency_metrics", metrics.prompt_id, 0, r, None, None)
    /\ UNCHANGED <<fk, now, sqlite_master, schema_version, cache, threads>>

ListPrompts(filter) ==
    /\ Commit(DB)
    /\ LET r == list_prompts(DB, filter)
       IN  result' = [op |-> "list_prompts", id |-> "", ver |-> 0, ok |-> r.ok,
                      err |-> r.err, val |-> r.val,
                      pre |-> [filter |-> filter]]
    /\ UNCHANGED <<fk, now, sqlite_master, schema_version, cache, threads>>

Init ==
    /\ fk \in BOOLEAN
    /\ now = 0
    /\ prompts = << >>
    /\ tags = << >>
    /\ prompt_tags = {}
    /\ quality_scores = << >>
    /\ efficiency_metrics = << >>
    /\ version_history = << >>
    /\ sqlite_master = InitialSchema
    /\ schema_version = << >>
    /\ cache = Cache_new(0, 0)
    /\ threads = [t \in Threads |-> Idle]
    /\ result = [op |-> "open", id |-> "", ver |-> 0, ok |-> TRUE, err |-> "",
                 val |-> None, pre |-> None]

----------------------------------------------------------------------------
(* Spec: the versioning subsystem on top of the record store *)

(* the prompt values the callers pass: for p1 two contents, one of them   *)
(* under two categories (the same prompt before and after it is           *)
(* re-categorised); p2 is there for the per-prompt counters               *)
VersionedPrompts ==
    {MkPrompt("p1", <<"a", "b">>, "h1", Some("code"), <<"t1">>, 0, 0, DefaultMetadata),
     MkPrompt("p1", <<"a", "b">>, "h1", Some("reviewed"), <<"t1">>, 0, 0, DefaultMetadata),
     MkPrompt("p1", <<"A", "c">>, "h2", None, << >>, 0, 0, DefaultMetadata),
     MkPrompt("p2", <<"a", "b">>, "h1", Some("code"), <<"t1">>, 0, 0, DefaultMetadata)}

Next ==
    \/ \E P \in VersionedPrompts : CreatePrompt(P)
    \/ \E P \in VersionedPrompts : UpdatePrompt(P)
    \/ \E P \in VersionedPrompts : SaveVersion(P)
    \/ \E id \in Ids, v \in 0..MaxHistory : RestoreVersion(id, v)
    \/ \E id \in Ids : DeletePrompt(id)

Spec == Init /\ [][Next]_vars

----------------------------------------------------------------------------
(* SpecCascade: a prompt with its tag links, scores, metrics and history,  *)
(* deleted and created again                                               *)

Metadata2 == [model |-> "gpt", execution_time_ms |-> Some(U64Mod - 1)]

CascadePrompts ==
    {MkPrompt("p1", <<"a", "b">>, "h1", Some("code"), <<"t1">>, 0, 0, DefaultMetadata),
     MkPrompt("p2", <<"A", "c">>, "h2", None, <<"t1", "t2">>, 1, 1, DefaultMetadata)}

Scores ==
    {[prompt_id |-> "p1", total_score |-> 85, analyzed_at |-> 0],
     [prompt_id |-> "p2", total_score |-> 50, analyzed_at |-> 1]}

Metrics ==
    {[prompt_id |-> "p1", efficiency_score |-> 75, calculated_at |-> 0]}

NextCascade ==
    \/ Tick
    \/ \E P \in CascadePrompts : CreatePrompt(P)
    \/ \E id \in Ids : DeletePrompt(id)
    \/ \E score \in Scores : SaveQualityScore(score)
    \/ \E metrics \in Metrics : SaveEfficiencyMetrics(metrics)
    \/ \E P \in {Q \in CascadePrompts : Q.id = "p1"} : SaveVersion(P)

SpecCascade == Init /\ [][NextCascade]_vars

----------------------------------------------------------------------------
(* SpecStore: create, update and delete with tag lists that repeat a name  *)
(* and share names between prompts                                         *)

StorePrompts ==
    {MkPrompt(id, <<"a", "b">>, "h1", Some("code"), <<"t1", "t2">>, 0, 0, DefaultMetadata) : id \in Ids}
    \cup
    {MkPrompt(id, <<"A", "c">>, "h2", None, <<"t2", "t2">>, 1, 3, Metadata2) : id \in Ids}
    \cup
    {MkPrompt(id, <<"a", "b">>, "h2", Some("reviewed"), << >>, 2, 2, DefaultMetadata) : id \in Ids}

NextStore ==
    \/ \E P \in StorePrompts : CreatePrompt(P)
    \/ \E P \in StorePrompts : UpdatePrompt(P)
    \/ \E id \in Ids : DeletePrompt(id)

SpecStore == Init /\ [][NextStore]_vars

----------------------------------------------------------------------------
(* SpecList: list_prompts over stores whose prompts differ in category,    *)
(* tags, content and creation time                                         *)

ListedPrompts ==
    {MkPrompt(id, <<"a", "b">>, "h1", Some("code"), <<"t1", "t2">>, 1, 1, DefaultMetadata) : id \in Ids}
    \cup
    {MkPrompt(id, <<"B", "c">>, "h2", Some("docs"), <<"t2">>, 2, 2, DefaultMetadata) : id \in Ids}
    \cup
    {MkPrompt(id, <<"c">>, "h3", None, << >>, 3, 3, DefaultMetadata) : id \in Ids}

MkFilter(category, tgs, search_query, date_from, date_to) ==
    [category |-> category, tags |-> tgs, limit |-> None, offset |-> None,
     search_query |-> search_query, date_from |-> date_from, date_to |-> date_to,
     min_quality_score |-> None, max_quality_score |-> None]

Filters ==
    {MkFilter(c, t, s, f, u) :
        c \in {None, Some("code")},
        t \in {<< >>, <<"t1", "t2">>, <<"t3", "t2">>},
        s \in {None, Some(<<"b">>), Some(<<"_">>), Some(<< >>)},
        f \in {None, Some(2)},
        u \in {None, Some(2)}}

NextList ==
    \/ \E P \in ListedPrompts : CreatePrompt(P)
    \/ \E filter \in Filters : ListPrompts(filter)

SpecList == Init /\ [][NextList]_vars

----------------------------------------------------------------------------
(* SpecPage: list_prompts with limit and offset over stores of up to three *)
(* prompts, two of which may share a creation time                         *)

PagedPrompts ==
    {MkPrompt("p1", <<"a">>, "h1", Some("code"), << >>, t, t, DefaultMetadata) : t \in {1, 2}}
    \cup
    {MkPrompt("p2", <<"b">>, "h2", Some("code"), << >>, t, t, DefaultMetadata) : t \in {2, 3}}
    \cup
    {MkPrompt("p3", <<"c">>, "h3", Some("docs"), << >>, 3, 3, DefaultMetadata)}

(* usize values of limit and offset, the last one above the largest i64 *)
PageSizes == {None, Some(0), Some(1), Some(2), Some(I64Max), Some(I64Max + 1)}

PageFilters ==
    {[MkFilter(c, << >>, None, None, None) EXCEPT !.limit = n, !.offset = k] :
        c \in {None, Some("code")}, n \in PageSizes, k \in PageSizes}

NextPage ==
    \/ \E P \in PagedPrompts : CreatePrompt(P)
    \/ \E filter \in PageFilters : ListPrompts(filter)

SpecPage == Init /\ [][NextPage]_vars

----------------------------------------------------------------------------
(* The filter query language (filter/mod.rs).  A query is a sequence of    *)
(* characters; every function below is computed as the code computes it.   *)

UpperLetters == <<"A", "B", "C", "D", "E", "F", "G", "H", "I", "J", "K", "L", "M",
                  "N", "O", "P", "Q", "R", "S", "T", "U", "V", "W", "X", "Y", "Z">>
LowerLetters == <<"a", "b", "c", "d", "e", "f", "g", "h", "i", "j", "k", "l", "m",
                  "n", "o", "p", "q", "r", "s", "t", "u", "v", "w", "x", "y", "z">>

to_lowercase(s) ==
    [i \in 1..Len(s) |->
        IF \E k \in 1..Len(UpperLetters) : UpperLetters[k] = s[i]
        THEN LowerLetters[CHOOSE k \in 1..Len(UpperLetters) : UpperLetters[k] = s[i]]
        ELSE s[i]]

starts_with(s, prefix) ==
    Len(s) >= Len(prefix) /\ SubSeq(s, 1, Len(prefix)) = prefix

(* parts joined by a separator *)
RECURSIVE join(_, _)
join(parts, sep) ==
    IF parts = << >> THEN << >>
    ELSE IF Len(parts) = 1 THEN parts[1]
    ELSE parts[1] \o sep \o join(Tail(parts), sep)

(* one character of split_query's loop *)
SplitChar(st, ch) ==
    IF ch \in {"\"", "'"} /\ ~st.in_quotes
    THEN [st EXCEPT !.in_quotes = TRUE, !.quote_char = ch]
    ELSE IF ch = st.quote_char /\ st.in_quotes
    THEN [st EXCEPT !.in_quotes = FALSE]
    ELSE IF ch \in {" ", "\t"} /\ ~st.in_quotes
    THEN IF st.current # << >>
         THEN [st EXCEPT !.parts = Append(@, st.current), !.current = << >>]
         ELSE st
    ELSE [st EXCEPT !.current = Append(@, ch)]

(* the loop over query.chars(), the characters taken in their order *)
RECURSIVE SplitChars(_, _)
SplitChars(st, chars) ==
    IF chars = << >> THEN st
    ELSE IF Len(chars) = 1 THEN SplitChar(st, chars[1])
    ELSE LET half == Len(chars) \div 2
             done == SplitChars(st, SubSeq(chars, 1, half))
         IN  IF done.in_quotes \in BOOLEAN   \* first half before the second
             THEN SplitChars(done, SubSeq(chars, half + 1, Len(chars)))
             ELSE done

(* after the loop: the last part is pushed when it is not empty *)
PushCurrent(st) ==
    IF st.current # << >> THEN Append(st.parts, st.current) ELSE st.parts

split_query(query) ==
    PushCurrent(SplitChars([parts |-> << >>, current |-> << >>,
                            in_quotes |-> FALSE, quote_char |-> "\""], query))

(* str::find(':'): the place of the first colon, 0 when there is none *)
find(part, ch) ==
    IF \E i \in 1..Len(part) : part[i] = ch
    THEN CHOOSE i \in 1..Len(part) : part[i] = ch /\ \A j \in 1..(i - 1) : part[j] # ch
    ELSE 0

(* str::parse::<usize>(): of the texts the queries use, the runs of        *)
(* decimal digits are numbers; the empty text, a sign "-", a fraction and   *)
(* letters are errors                                                       *)
IsDigit(ch) == \E k \in 1..Len(Digits) : Digits[k] = ch

DigitValue(ch) == (CHOOSE k \in 1..Len(Digits) : Digits[k] = ch) - 1

RECURSIVE Decimal(_)
Decimal(s) ==
    IF s = << >> THEN 0
    ELSE Decimal(SubSeq(s, 1, Len(s) - 1)) * 10 + DigitValue(s[Len(s)])

parse_usize(s) ==
    IF s # << >> /\ \A i \in 1..Len(s) : IsDigit(s[i])
    THEN Some(Decimal(s)) ELSE None

(* str::parse::<f64>(): of the texts the queries use, the runs of decimal  *)
(* digits are (whole) numbers; the empty text and letters are errors       *)
parse_f64(s) ==
    IF s # << >> /\ \A i \in 1..Len(s) : IsDigit(s[i])
    THEN Some(Decimal(s)) ELSE None

(* NaiveDate::parse_from_str(s, "%Y-%m-%d"): of the texts the queries     *)
(* use, those of a year, a month and a day in digits with "-" between     *)
(* them that name a day of the calendar are dates; the others are errors   *)
DaysIn(y, m) ==
    IF m = 2 THEN (IF (y % 4 = 0 /\ y % 100 # 0) \/ y % 400 = 0 THEN 29 ELSE 28)
    ELSE IF m \in {4, 6, 9, 11} THEN 30 ELSE 31

NaiveDate_parse_from_str(s) ==
    LET d1 == find(s, "-")
        rest == SubSeq(s, d1 + 1, Len(s))
        d2 == find(rest, "-")
        y == parse_usize(SubSeq(s, 1, d1 - 1))
        m == parse_usize(SubSeq(rest, 1, d2 - 1))
        d == parse_usize(SubSeq(rest, d2 + 1, Len(rest)))
    IN  IF d1 = 0 \/ d2 = 0 \/ y = None \/ m = None \/ d = None THEN None
        ELSE IF m[1] \notin 1..12 \/ d[1] \notin 1..DaysIn(y[1], m[1]) THEN None
        ELSE Some(<<y[1], m[1], d[1]>>)

(* NaiveDate::and_hms_opt(0, 0, 0).and_utc() *)
and_hms_utc(date, h, m, s) == [date |-> date, time |-> <<h, m, s>>]

(* the comparator prefix of a value and the text after it *)
SplitComparison(value) ==
    IF starts_with(value, <<">", "=">>)
    THEN [comp |-> "GreaterOrEqual", rest |-> SubSeq(value, 3, Len(value))]
    ELSE IF starts_with(value, <<"<", "=">>)
    THEN [comp |-> "LessOrEqual", rest |-> SubSeq(value, 3, Len(value))]
    ELSE IF starts_with(value, <<">">>)
    THEN [comp |-> "GreaterThan", rest |-> SubSeq(value, 2, Len(value))]
    ELSE IF starts_with(value, <<"<">>)
    THEN [comp |-> "LessThan", rest |-> SubSeq(value, 2, Len(value))]
    ELSE [comp |-> "Equal", rest |-> value]

ConfigError == "ConfigError"

(* results of the parsing functions: ok with a value, or an error *)
Parsed(v) == [ok |-> TRUE, err |-> "", val |-> v]
Failed(e) == [ok |-> FALSE, err |-> e, val |-> None]

(* the ? operator: the error is returned, or the function goes on with the *)
(* value                                                                   *)
AndThen(r, Rest(_)) == IF ~r.ok THEN Failed(r.err) ELSE Rest(r.val)

(* .map_err(|_| e) of a parse: the number, or the error e *)
map_err(num, e) == IF num = None THEN Failed(e) ELSE Parsed(num[1])

parse_comparison(value) ==
    LET c == SplitComparison(value)
    IN  AndThen(map_err(parse_f64(c.rest), ConfigError),
                LAMBDA num : Parsed([comp |-> c.comp, value |-> num]))

parse_date_comparison(value) ==
    LET c == SplitComparison(value)
    IN  AndThen(map_err(NaiveDate_parse_from_str(c.rest), ConfigError),
                LAMBDA naive_date :
                    Parsed([comp |-> c.comp, value |-> and_hms_utc(naive_date, 0, 0, 0)]))

(* str::parse::<PromptStatus>() *)
parse_status(value) ==
    LET s == to_lowercase(value)
    IN  IF s = <<"a", "c", "t", "i", "v", "e">> THEN Some("Active")
        ELSE IF s = <<"a", "r", "c", "h", "i", "v", "e", "d">> THEN Some("Archived")
        ELSE IF s = <<"d", "e", "p", "r", "e", "c", "a", "t", "e", "d">> THEN Some("Deprecated")
        ELSE None

FilterToken(kind, comp, value) == [kind |-> kind, comp |-> comp, value |-> value]

(* parse_token: Some(token) for a part with a known field, None for a part *)
(* that is a search term, an error for a bad value of a known field        *)
parse_token(part) ==
    LET colon_idx == find(part, ":")
        field == to_lowercase(SubSeq(part, 1, colon_idx - 1))
        value == SubSeq(part, colon_idx + 1, Len(part))
    IN  IF colon_idx = 0 THEN Parsed(None)
        ELSE IF field \in {<<"c", "a", "t", "e", "g", "o", "r", "y">>, <<"c", "a", "t">>}
        THEN Parsed(Some(FilterToken("Category", "", value)))
        ELSE IF field = <<"t", "a", "g">>
        THEN Parsed(Some(FilterToken("Tag", "", value)))
        ELSE IF field = <<"s", "t", "a", "t", "u", "s">>
        THEN AndThen(map_err(parse_status(value), ConfigError),
                     LAMBDA status : Parsed(Some(FilterToken("Status", "", status))))
        ELSE IF field \in {<<"q", "u", "a", "l", "i", "t", "y">>, <<"q">>}
        THEN AndThen(parse_comparison(value),
                     LAMBDA c : Parsed(Some(FilterToken("Quality", c.comp, c.value))))
        ELSE IF field \in {<<"e", "f", "f", "i", "c", "i", "e", "n", "c", "y">>, <<"e", "f", "f">>}
        THEN AndThen(parse_comparison(value),
                     LAMBDA c : Parsed(Some(FilterToken("Efficiency", c.comp, c.value))))
        ELSE IF field \in {<<"d", "a", "t", "e">>, <<"c", "r", "e", "a", "t", "e", "d">>}
        THEN AndThen(parse_date_comparison(value),
                     LAMBDA c : IF c.comp \in {"LessThan", "LessOrEqual"}
                                THEN Parsed(Some(FilterToken("DateTo", "", c.value)))
                                ELSE Parsed(Some(FilterToken("DateFrom", "", c.value))))
        ELSE IF field = <<"l", "i", "m", "i", "t">>
        THEN AndThen(map_err(parse_usize(value), ConfigError),
                     LAMBDA num : Parsed(Some(FilterToken("Limit", "", num))))
        ELSE IF field \in {<<"o", "f", "f", "s", "e", "t">>, <<"s", "k", "i", "p">>}
        THEN AndThen(map_err(parse_usize(value), ConfigError),
                     LAMBDA num : Parsed(Some(FilterToken("Offset", "", num))))
        ELSE Parsed(None)

(* the loop of tokenize_query over the parts: a token is pushed, a part   *)
(* without a known field is collected as a search term, an error of        *)
(* parse_token ends the loop                                               *)
TokenizeLenient(st, part) ==
    LET r == parse_token(part)
    IN  IF r.ok /\ r.val # None
        THEN [st EXCEPT !.tokens = Append(@, r.val[1])]
        ELSE IF part # << >>
        THEN [st EXCEPT !.search_terms = Append(@, part)]
        ELSE st

(* the body of the loop, r the result of parse_token *)
PushToken(st, part, r) ==
    IF ~r.ok THEN [st EXCEPT !.ok = FALSE, !.err = r.err]
    ELSE IF r.val # None
    THEN [st EXCEPT !.tokens = Append(@, r.val[1])]
    ELSE IF part # << >>
    THEN [st EXCEPT !.search_terms = Append(@, part)]
    ELSE st

TokenizePart(st, part) == PushToken(st, part, parse_token(part))

RECURSIVE TokenizeParts(_, _)
TokenizeParts(st, parts) ==
    IF parts = << >> \/ ~st.ok THEN st
    ELSE TokenizeParts(TokenizePart(st, Head(parts)), Tail(parts))

(* after the loop: the search terms are combined into one token *)
PushSearch(st) ==
    IF ~st.ok THEN Failed(st.err)
    ELSE IF st.search_terms # << >>
    THEN Parsed(Append(st.tokens,
                       FilterToken("Search", "", join(st.search_terms, <<" ">>))))
    ELSE Parsed(st.tokens)

tokenize_query(query) ==
    PushSearch(TokenizeParts([ok |-> TRUE, err |-> "", tokens |-> << >>,
                              search_terms |-> << >>], split_query(query)))

(* PromptFilter::default(), with the status field that tokens_to_filter    *)
(* assigns                                                                 *)
DefaultFilter == [status |-> None] @@ MkFilter(None, << >>, None, None, None)

(* FilterToken::Efficiency: min_quality_score.or(Some(0.0)).map(|_| value) *)
(* for ">" and ">=", nothing for the other comparators                     *)
Efficiency(filter, token) ==
    IF token.comp \in {"GreaterThan", "GreaterOrEqual"}
    THEN [filter EXCEPT !.min_quality_score = Some(token.value)]
    ELSE filter

Quality(filter, token) ==
    IF token.comp \in {"GreaterThan", "GreaterOrEqual"}
    THEN [filter EXCEPT !.min_quality_score = Some(token.value)]
    ELSE IF token.comp \in {"LessThan", "LessOrEqual"}
    THEN [filter EXCEPT !.max_quality_score = Some(token.value)]
    ELSE [filter EXCEPT !.min_quality_score = Some(token.value),
                        !.max_quality_score = Some(token.value)]

(* one token of tokens_to_filter's loop *)
ApplyToken(filter, token) ==
    CASE token.kind = "Category" -> [filter EXCEPT !.category = Some(token.value)]
      [] token.kind = "Tag" -> [filter EXCEPT !.tags = Append(@, token.value)]
      [] token.kind = "Status" -> [filter EXCEPT !.status = Some(token.value)]
      [] token.kind = "Quality" -> Quality(filter, token)
      [] token.kind = "Efficiency" -> Efficiency(filter, token)
      [] token.kind = "DateFrom" -> [filter EXCEPT !.date_from = Some(token.value)]
      [] token.kind = "DateTo" -> [filter EXCEPT !.date_to = Some(token.value)]
      [] token.kind = "Limit" -> [filter EXCEPT !.limit = Some(token.value)]
      [] token.kind = "Offset" -> [filter EXCEPT !.offset = Some(token.value)]
      [] token.kind = "Search" -> [filter EXCEPT !.search_query = Some(token.value)]

RECURSIVE ApplyTokens(_, _)
ApplyTokens(filter, tokens) ==
    IF tokens = << >> THEN filter
    ELSE ApplyTokens(ApplyToken(filter, Head(tokens)), Tail(tokens))

tokens_to_filter(tokens) == Parsed(ApplyTokens(DefaultFilter, tokens))

parse_filter_query(query) ==
    AndThen(tokenize_query(query),
            LAMBDA tokens : AndThen(tokens_to_filter(tokens),
                                    LAMBDA filter : Parsed(Some(filter))))

----------------------------------------------------------------------------
(* Specifications of the parser: the initial states hold the queries, one   *)
(* action parses the query.  A query is a sequence of at most MaxWords      *)
(* words with single spaces between them; each word comes with the way it   *)
(* is read: its text once quotes are taken off, the filter field it is for  *)
(* and the value it states.                                                 *)

MaxWords == 4

Words ==
    {[text |-> <<"c", "a", "t", "e", "g", "o", "r", "y", ":", "c", "o", "d", "e">>,
      written |-> <<"c", "a", "t", "e", "g", "o", "r", "y", ":", "c", "o", "d", "e">>,
      field |-> "category", value |-> <<"c", "o", "d", "e">>],
     [text |-> <<"t", "a", "g", ":", "r", "u", "s", "t">>,
      written |-> <<"t", "a", "g", ":", "r", "u", "s", "t">>,
      field |-> "tags", value |-> <<"r", "u", "s", "t">>],
     [text |-> <<"q", "u", "a", "l", "i", "t", "y", ":", ">", "8", "0">>,
      written |-> <<"q", "u", "a", "l", "i", "t", "y", ":", ">", "8", "0">>,
      field |-> "min_quality_score", value |-> 80],
     [text |-> <<"f", "i", "b", "o", "n", "a", "c", "c", "i">>,
      written |-> <<"f", "i", "b", "o", "n", "a", "c", "c", "i">>,
      field |-> "search_query", value |-> <<"f", "i", "b", "o", "n", "a", "c", "c", "i">>],
     [text |-> <<"T", "A", "G", ":", "s">>,
      written |-> <<"T", "A", "G", ":", "s">>,
      field |-> "tags", value |-> <<"s">>],
     [text |-> <<"l", "i", "m", "i", "t", ":", "2">>,
      written |-> <<"l", "i", "m", "i", "t", ":", "2">>,
      field |-> "limit", value |-> 2],
     [text |-> <<"c", "r", "e", "a", "t", "e", "d", ":", "<", "2", "0", "2", "4", "-", "0", "1", "-", "0", "2">>,
      written |-> <<"c", "r", "e", "a", "t", "e", "d", ":", "<", "2", "0", "2", "4", "-", "0", "1", "-", "0", "2">>,
      field |-> "date_to", value |-> and_hms_utc(<<2024, 1, 2>>, 0, 0, 0)],
     [text |-> <<"f", "o", "o", ":", "1">>,
      written |-> <<"f", "o", "o", ":", "1">>,
      field |-> "search_query", value |-> <<"f", "o", "o", ":", "1">>],
     [text |-> <<"a", " ", "b">>,
      written |-> <<"'", "a", " ", "b", "'">>,
      field |-> "search_query", value |-> <<"a", " ", "b">>],
     [text |-> <<"s", "k", "i", "p", ":", "3">>,
      written |-> <<"s", "k", "i", "p", ":", "3">>,
      field |-> "search_query", value |-> <<"s", "k", "i", "p", ":", "3">>],
     [text |-> <<"e", "f", "f", ":", ">", "5">>,
      written |-> <<"e", "f", "f", ":", ">", "5">>,
      field |-> "efficiency", value |-> 5]}

(* words that state a bad value for a numeric or date field, among others *)
MalformedWords ==
    {[text |-> <<"t", "a", "g", ":", "r", "u", "s", "t">>,
      written |-> <<"t", "a", "g", ":", "r", "u", "s", "t">>,
      field |-> "tags", value |-> <<"r", "u", "s", "t">>],
     [text |-> <<"f", "i", "b", "o", "n", "a", "c", "c", "i">>,
      written |-> <<"f", "i", "b", "o", "n", "a", "c", "c", "i">>,
      field |-> "search_query", value |-> <<"f", "i", "b", "o", "n", "a", "c", "c", "i">>],
     [text |-> <<"q", "u", "a", "l", "i", "t", "y", ":", ">", "8", "0">>,
      written |-> <<"q", "u", "a", "l", "i", "t", "y", ":", ">", "8", "0">>,
      field |-> "min_quality_score", value |-> 80],
     [text |-> <<"q", ":", ">", "a", "b", "c">>,
      written |-> <<"q", ":", ">", "a", "b", "c">>,
      field |-> "malformed", value |-> 0],
     [text |-> <<"e", "f", "f", "i", "c", "i", "e", "n", "c", "y", ":">>,
      written |-> <<"e", "f", "f", "i", "c", "i", "e", "n", "c", "y", ":">>,
      field |-> "malformed", value |-> 0],
     [text |-> <<"d", "a", "t", "e", ":", ">", "i", "n", "v", "a", "l", "i", "d">>,
      written |-> <<"d", "a", "t", "e", ":", ">", "i", "n", "v", "a", "l", "i", "d">>,
      field |-> "malformed", value |-> 0],
     [text |-> <<"c", "r", "e", "a", "t", "e", "d", ":", "2", "0", "2", "4", "-", "0", "2", "-", "3", "0">>,
      written |-> <<"c", "r", "e", "a", "t", "e", "d", ":", "2", "0", "2", "4", "-", "0", "2", "-", "3", "0">>,
      field |-> "malformed", value |-> 0],
     [text |-> <<"l", "i", "m", "i", "t", ":", "-", "1">>,
      written |-> <<"l", "i", "m", "i", "t", ":", "-", "1">>,
      field |-> "malformed", value |-> 0],
     [text |-> <<"O", "F", "F", "S", "E", "T", ":", "x">>,
      written |-> <<"O", "F", "F", "S", "E", "T", ":", "x">>,
      field |-> "malformed", value |-> 0]}

(* quality and efficiency words without comparator, among others *)
PointWords ==
    {[text |-> <<"q", "u", "a", "l", "i", "t", "y", ":", "8", "5">>,
      written |-> <<"q", "u", "a", "l", "i", "t", "y", ":", "8", "5">>,
      field |-> "quality", value |-> 85],
     [text |-> <<"e", "f", "f", "i", "c", "i", "e", "n", "c", "y", ":", "8", "5">>,
      written |-> <<"e", "f", "f", "i", "c", "i", "e", "n", "c", "y", ":", "8", "5">>,
      field |-> "efficiency", value |-> 85],
     [text |-> <<"q", ":", "7">>,
      written |-> <<"q", ":", "7">>,
      field |-> "quality", value |-> 7],
     [text |-> <<"e", "f", "f", ":", "6">>,
      written |-> <<"e", "f", "f", ":", "6">>,
      field |-> "efficiency", value |-> 6],
     [text |-> <<"t", "a", "g", ":", "r", "u", "s", "t">>,
      written |-> <<"t", "a", "g", ":", "r", "u", "s", "t">>,
      field |-> "tags", value |-> <<"r", "u", "s", "t">>],
     [text |-> <<"f", "i", "b", "o", "n", "a", "c", "c", "i">>,
      written |-> <<"f", "i", "b", "o", "n", "a", "c", "c", "i">>,
      field |-> "search_query", value |-> <<"f", "i", "b", "o", "n", "a", "c", "c", "i">>]}

WordSeqs(ws) == UNION {[1..n -> ws] : n \in 0..MaxWords}

Written(words) == join([i \in 1..Len(words) |-> words[i].written], <<" ">>)

ParseFilterQuery ==
    /\ result.op = "query"
    /\ result' = [op |-> "parse_filter_query", id |-> "", ver |-> 0, pre |-> result.pre]
                  @@ parse_filter_query(Written(result.pre.words))
    /\ Commit(DB)
    /\ UNCHANGED <<fk, now, sqlite_master, schema_version, cache, threads>>

(* the parser takes no store: the tables stay empty *)
InitQuery(ws) ==
    /\ fk = FALSE
    /\ now = 0
    /\ prompts = << >>
    /\ tags = << >>
    /\ prompt_tags = {}
    /\ quality_scores = << >>
    /\ efficiency_metrics = << >>
    /\ version_history = << >>
    /\ sqlite_master = { }
    /\ schema_version = << >>
    /\ cache = Cache_new(0, 0)
    /\ threads = [t \in Threads |-> Idle]
    /\ result \in {[op |-> "query", id |-> "", ver |-> 0, ok |-> TRUE, err |-> "",
                    val |-> None, pre |-> [words |-> w]] : w \in WordSeqs(ws)}

NextParse == ParseFilterQuery

SpecParse == InitQuery(Words) /\ [][NextParse]_vars

SpecParseMalformed == InitQuery(MalformedWords) /\ [][NextParse]_vars

SpecParsePoint == InitQuery(PointWords) /\ [][NextParse]_vars

----------------------------------------------------------------------------
(* SpecMigrate: a database file that starts empty; the migration manager   *)
(* works on a connection to it, Database::new opens it as a record store.   *)

(* Database::new / Database::in_memory *)
Open ==
    /\ sqlite_master' = initialize_schema(sqlite_master)
    /\ result' = [op |-> "open", id |-> "", ver |-> 0, ok |-> TRUE, err |-> "",
                  val |-> None, pre |-> M]
    /\ UNCHANGED <<fk, now, prompts, tags, prompt_tags, quality_scores,
                   efficiency_metrics, version_history, schema_version, cache, threads>>

RunMigrations(fault) ==
    /\ LET r == run_migrations(M, fault)
       IN  /\ sqlite_master' = r.m.objects
           /\ schema_version' = r.m.ledger
           /\ result' = [op |-> "run_migrations", id |-> "", ver |-> 0,
                         ok |-> r.ok, err |-> r.err, val |-> r.applied,
                         pre |-> [objects |-> sqlite_master,
                                  ledger |-> schema_version,
                                  fault |-> fault, prev |-> Previous]]
    /\ UNCHANGED <<fk, now, prompts, tags, prompt_tags, quality_scores,
                   efficiency_metrics, version_history, cache, threads>>

NeedsMigration ==
    /\ LET r == needs_migration(M)
       IN  /\ sqlite_master' = r.m.objects
           /\ schema_version' = r.m.ledger
           /\ result' = [op |-> "needs_migration", id |-> "", ver |-> 0,
                         ok |-> r.ok, err |-> r.err, val |-> r.val,
                         pre |-> M]
    /\ UNCHANGED <<fk, now, prompts, tags, prompt_tags, quality_scores,
                   efficiency_metrics, version_history, cache, threads>>

GetMigrationHistory ==
    /\ LET r == get_migration_history(M)
       IN  /\ sqlite_master' = r.m.objects
           /\ schema_version' = r.m.ledger
           /\ result' = [op |-> "get_migration_history", id |-> "", ver |-> 0,
                         ok |-> r.ok, err |-> r.err, val |-> r.val,
                         pre |-> M]
    /\ UNCHANGED <<fk, now, prompts, tags, prompt_tags, quality_scores,
                   efficiency_metrics, version_history, cache, threads>>

InitMigrate ==
    /\ fk \in BOOLEAN
    /\ now = 0
    /\ prompts = << >>
    /\ tags = << >>
    /\ prompt_tags = {}
    /\ quality_scores = << >>
    /\ efficiency_metrics = << >>
    /\ version_history = << >>
    /\ sqlite_master = { }
    /\ schema_version = << >>
    /\ cache = Cache_new(0, 0)
    /\ threads = [t \in Threads |-> Idle]
    /\ result = [op |-> "connect", id |-> "", ver |-> 0, ok |-> TRUE, err |-> "",
                 val |-> None, pre |-> None]

(* the record store is used once Database::new has returned *)
Opened == InitialSchema \subseteq sqlite_master

NextMigrate ==
    \/ Open
    \/ \E fault \in Faults : RunMigrations(fault)
    \/ NeedsMigration
    \/ GetMigrationHistory
    \/ Opened /\ \E P \in StorePrompts : P.id = "p1" /\ CreatePrompt(P)

SpecMigrate == InitMigrate /\ [][NextMigrate]_vars

----------------------------------------------------------------------------
(* Export and import.  The document is the serde_json value: a DateTime is *)
(* written as its RFC 3339 text and read back from it.                      *)

find_by_hash(d, hash) ==
    IF \E id \in DOMAIN d.prompts : d.prompts[id].content_hash = hash
    THEN get_prompt(d, CHOOSE id \in DOMAIN d.prompts : d.prompts[id].content_hash = hash)
    ELSE None

(* rows of quality_scores ORDER BY analyzed_at DESC; rows with the same    *)
(* text in the order they were stored                                       *)
RECURSIVE OrderByAnalyzedDesc(_, _)
OrderByAnalyzedDesc(d, idx) ==
    IF idx = {} THEN << >>
    ELSE LET top == {i \in idx : \A j \in idx :
                        TextLE(d.quality_scores[j].analyzed_at,
                               d.quality_scores[i].analyzed_at)}
             first == CHOOSE i \in top : \A j \in top : i <= j
         IN  <<first>> \o OrderByAnalyzedDesc(d, idx \ {first})

get_all_quality_scores(d) ==
    LET order == OrderByAnalyzedDesc(d, 1..Len(d.quality_scores))
    IN  [k \in 1..Len(order) |->
            [prompt_id |-> d.quality_scores[order[k]].prompt_id,
             total_score |-> d.quality_scores[order[k]].total_score,
             analyzed_at |-> parse_from_rfc3339(d.quality_scores[order[k]].analyzed_at)]]

(* Serialize / Deserialize of DateTime<Utc> *)
from_value_time(s) ==
    IF \E t \in 0..MaxDateTime : to_rfc3339(t) = s
    THEN Some(CHOOSE t \in 0..MaxDateTime : to_rfc3339(t) = s)
    ELSE None

PromptToValue(P) ==
    [P EXCEPT !.created_at = to_rfc3339(@), !.updated_at = to_rfc3339(@)]

PromptFromValue(v) ==
    IF from_value_time(v.created_at) = None \/ from_value_time(v.updated_at) = None
    THEN None
    ELSE Some([v EXCEPT !.created_at = from_value_time(@)[1],
                        !.updated_at = from_value_time(@)[1]])

ScoreToValue(score) == [score EXCEPT !.analyzed_at = to_rfc3339(@)]

ScoreFromValue(v) ==
    IF from_value_time(v.analyzed_at) = None THEN None
    ELSE Some([v EXCEPT !.analyzed_at = from_value_time(@)[1]])

MetricsToValue(metrics) == [metrics EXCEPT !.calculated_at = to_rfc3339(@)]

MetricsFromValue(v) ==
    IF from_value_time(v.calculated_at) = None THEN None
    ELSE Some([v EXCEPT !.calculated_at = from_value_time(@)[1]])

(* for prompt in &prompts: the latest metrics of the prompt, if any *)
RECURSIVE LatestMetricsOf(_, _)
LatestMetricsOf(d, ps) ==
    IF ps = << >> THEN << >>
    ELSE LET metrics == get_efficiency_metrics(d, Head(ps).id)
         IN  (IF metrics = None THEN << >> ELSE <<metrics[1]>>)
             \o LatestMetricsOf(d, Tail(ps))

export_to_json(d) ==
    LET ps == list_prompts(d, DefaultFilter).val
        quality == get_all_quality_scores(d)
        efficiency == LatestMetricsOf(d, ps)
    IN  [version |-> "1.0",
         exported_at |-> to_rfc3339(now),
         prompts |-> [k \in 1..Len(ps) |-> PromptToValue(ps[k])],
         quality_scores |-> [k \in 1..Len(quality) |-> ScoreToValue(quality[k])],
         efficiency_metrics |->
             [k \in 1..Len(efficiency) |-> MetricsToValue(efficiency[k])]]

(* the loop over data["prompts"]: a prompt whose content_hash is in the    *)
(* store is skipped; an error of create_prompt ends the import             *)
RECURSIVE ImportPrompts(_, _)
ImportPrompts(st, values) ==
    IF values = << >> \/ ~st.ok THEN st
    ELSE LET prompt == PromptFromValue(Head(values))
         IN  IF prompt = None
             THEN [st EXCEPT !.ok = FALSE, !.err = "IoError"]
             ELSE IF find_by_hash(st.db, prompt[1].content_hash) # None
             THEN ImportPrompts(st, Tail(values))
             ELSE LET r == create_prompt(st.db, prompt[1])
                  IN  IF ~r.ok
                      THEN [st EXCEPT !.db = r.db, !.ok = FALSE, !.err = r.err]
                      ELSE ImportPrompts([st EXCEPT !.db = r.db, !.val = @ + 1],
                                         Tail(values))

(* self.save_..(..)?: the error of the statement ends the import *)
Propagate(st, r) ==
    IF r.ok THEN [st EXCEPT !.db = r.db]
    ELSE [st EXCEPT !.db = r.db, !.ok = FALSE, !.err = r.err]

(* let _ = self.save_..(..): the result of the statement is dropped, what  *)
(* the statement did to the store stays                                     *)
Discard(st, r) == [st EXCEPT !.db = r.db]

(* an import that is idempotent on score rows: a row the store holds      *)
(* already is not stored again                                             *)
RECURSIVE ImportNewScores(_, _)
ImportNewScores(st, values) ==
    IF values = << >> \/ ~st.ok THEN st
    ELSE LET score == ScoreFromValue(Head(values))
         IN  IF score = None
             THEN [st EXCEPT !.ok = FALSE, !.err = "IoError"]
             ELSE IF Head(values) \in Range(st.db.quality_scores)
             THEN ImportNewScores(st, Tail(values))
             ELSE ImportNewScores(Discard(st, save_quality_score(st.db, score[1])),
                                  Tail(values))

(* let _ = self.save_quality_score(&score) *)
RECURSIVE ImportScores(_, _)
ImportScores(st, values) ==
    IF values = << >> \/ ~st.ok THEN st
    ELSE LET score == ScoreFromValue(Head(values))
         IN  IF score = None
             THEN [st EXCEPT !.ok = FALSE, !.err = "IoError"]
             ELSE ImportScores(Discard(st, save_quality_score(st.db, score[1])),
                               Tail(values))

(* let _ = self.save_efficiency_metrics(&metric) *)
RECURSIVE ImportMetrics(_, _)
ImportMetrics(st, values) ==
    IF values = << >> \/ ~st.ok THEN st
    ELSE LET metric == MetricsFromValue(Head(values))
         IN  IF metric = None
             THEN [st EXCEPT !.ok = FALSE, !.err = "IoError"]
             ELSE ImportMetrics(Discard(st, save_efficiency_metrics(st.db, metric[1])),
                                Tail(values))

(* returns the number of prompts it created *)
import_from_json(d, data) ==
    LET st0 == [db |-> d, ok |-> TRUE, err |-> "", val |-> 0]
        st1 == ImportPrompts(st0, data.prompts)
        st2 == ImportScores(st1, data.quality_scores)
    IN  ImportMetrics(st2, data.efficiency_metrics)

(* the tables of a store that Database::in_memory has just opened *)
EmptyStore ==
    [prompts |-> << >>, tags |-> << >>, prompt_tags |-> {},
     quality_scores |-> << >>, efficiency_metrics |-> << >>,
     version_history |-> << >>]

ExportToJson ==
    /\ Commit(DB)
    /\ result' = [op |-> "export_to_json", id |-> "", ver |-> 0, ok |-> TRUE,
                  err |-> "", val |-> export_to_json(DB), pre |-> None]
    /\ UNCHANGED <<fk, now, sqlite_master, schema_version, cache, threads>>

(* db2 = Database::in_memory(); db2.import_from_json(&db.export_to_json()) *)
(* -- the second store is dropped after the call                            *)
ImportIntoEmpty ==
    /\ Commit(DB)
    /\ LET r == import_from_json(EmptyStore, export_to_json(DB))
       IN  result' = [op |-> "import_into_empty", id |-> "", ver |-> 0,
                      ok |-> r.ok, err |-> r.err,
                      val |-> [imported |-> r.val, count |-> count_prompts(r.db)],
                      pre |-> [count |-> count_prompts(DB)]]
    /\ UNCHANGED <<fk, now, sqlite_master, schema_version, cache, threads>>

(* db.import_from_json(data): the rows of the document are appended to    *)
(* the score tables of the store                                            *)
ImportFromJson(data) ==
    /\ Len(quality_scores) + Len(data.quality_scores) <= MaxScores
    /\ Len(efficiency_metrics) + Len(data.efficiency_metrics) <= MaxScores
    /\ LET r == import_from_json(DB, data)
       IN  /\ Commit(r.db)
           /\ result' = [op |-> "import_from_json", id |-> "", ver |-> 0,
                         ok |-> r.ok, err |-> r.err,
                         val |-> [imported |-> r.val, count |-> count_prompts(r.db)],
                         pre |-> [count |-> count_prompts(DB), db |-> DB, data |-> data]]
    /\ UNCHANGED <<fk, now, sqlite_master, schema_version, cache, threads>>

(* SpecExport: stores of one or two prompts, which may have the same       *)
(* content and so the same content_hash, with up to MaxScores analysis runs *)
ExportedPrompts ==
    {MkPrompt("p1", <<"a", "b">>, "h1", Some("code"), <<"t1">>, 1, 1, DefaultMetadata),
     MkPrompt("p2", <<"a", "b">>, "h1", None, << >>, 2, 2, DefaultMetadata),
     MkPrompt("p2", <<"c">>, "h2", None, <<"t1">>, 2, 2, Metadata2)}

ExportedScores ==
    {[prompt_id |-> "p1", total_score |-> 85, analyzed_at |-> 0],
     [prompt_id |-> "p1", total_score |-> 90, analyzed_at |-> 1],
     [prompt_id |-> "p2", total_score |-> 50, analyzed_at |-> 1]}

ExportedMetrics ==
    {[prompt_id |-> "p1", efficiency_score |-> 75, calculated_at |-> 0],
     [prompt_id |-> "p1", efficiency_score |-> 80, calculated_at |-> 1]}

NextExport ==
    \/ \E P \in ExportedPrompts : CreatePrompt(P)
    \/ \E score \in ExportedScores : SaveQualityScore(score)
    \/ \E metrics \in ExportedMetrics : SaveEfficiencyMetrics(metrics)
    \/ ExportToJson
    \/ ImportIntoEmpty
    \/ ImportFromJson(export_to_json(DB))

SpecExport == Init /\ [][NextExport]_vars

----------------------------------------------------------------------------
(* SpecImport: documents that were not exported from the store they are    *)
(* imported into.  The store may hold p1 with the hash h1; the documents    *)
(* name p1 and p2 under the hashes h1, h2 and h3, and scores and metrics    *)
(* of both ids.                                                             *)

ImportStorePrompts ==
    {MkPrompt("p1", <<"a">>, "h1", Some("code"), <<"t1">>, 1, 1, DefaultMetadata)}

ImportedPromptLists ==
    LET A == PromptToValue(MkPrompt("p1", <<"a">>, "h1", Some("code"), <<"t1">>,
                                    1, 1, DefaultMetadata))
        B == PromptToValue(MkPrompt("p1", <<"b">>, "h2", None, << >>, 1, 1,
                                    DefaultMetadata))
        C == PromptToValue(MkPrompt("p2", <<"b">>, "h2", None, <<"t1">>, 1, 1,
                                    DefaultMetadata))
        D == PromptToValue(MkPrompt("p2", <<"c">>, "h3", None, << >>, 1, 1,
                                    DefaultMetadata))
    IN  {<<A>>, <<B>>, <<C>>, <<C, B>>, <<C, D>>}

ImportedScoreLists ==
    LET s1 == ScoreToValue([prompt_id |-> "p1", total_score |-> 85, analyzed_at |-> 0])
        s2 == ScoreToValue([prompt_id |-> "p2", total_score |-> 50, analyzed_at |-> 1])
    IN  {<< >>, <<s2, s1>>}

ImportedMetricsLists ==
    LET m2 == MetricsToValue([prompt_id |-> "p2", efficiency_score |-> 80,
                              calculated_at |-> 1])
    IN  {<< >>, <<m2>>}

Documents ==
    {[version |-> "1.0", exported_at |-> to_rfc3339(0), prompts |-> ps,
      quality_scores |-> qs, efficiency_metrics |-> ms] :
        ps \in ImportedPromptLists, qs \in ImportedScoreLists,
        ms \in ImportedMetricsLists}

NextImport ==
    \/ \E P \in ImportStorePrompts : CreatePrompt(P)
    \/ \E data \in Documents : ImportFromJson(data)

SpecImport == Init /\ [][NextImport]_vars

----------------------------------------------------------------------------
(* SpecTrends: the clock is on the third day of the calendar; prompts      *)
(* created on the first and the second day, with up to MaxScores analysis   *)
(* runs; windows of 0, 1 and 2 days                                         *)

GetDailyTrends(days) ==
    /\ Commit(DB)
    /\ result' = [op |-> "get_daily_trends", id |-> "", ver |-> 0, ok |-> TRUE,
                  err |-> "", val |-> get_daily_trends(DB, days),
                  pre |-> [days |-> days]]
    /\ UNCHANGED <<fk, now, sqlite_master, schema_version, cache, threads>>

InitTrends ==
    /\ fk \in BOOLEAN
    /\ now = 2 * TicksPerDay
    /\ prompts = << >>
    /\ tags = << >>
    /\ prompt_tags = {}
    /\ quality_scores = << >>
    /\ efficiency_metrics = << >>
    /\ version_history = << >>
    /\ sqlite_master = InitialSchema
    /\ schema_version = << >>
    /\ cache = Cache_new(0, 0)
    /\ threads = [t \in Threads |-> Idle]
    /\ result = [op |-> "open", id |-> "", ver |-> 0, ok |-> TRUE, err |-> "",
                 val |-> None, pre |-> None]

TrendPrompts ==
    {MkPrompt("p1", <<"a">>, "h1", None, << >>, TicksPerDay, TicksPerDay,
              DefaultMetadata),
     MkPrompt("p2", <<"b">>, "h2", None, << >>, TicksPerDay + 1, TicksPerDay + 1,
              DefaultMetadata),
     MkPrompt("p2", <<"b">>, "h2", None, << >>, 1, 1, DefaultMetadata)}

NextTrends ==
    \/ \E P \in TrendPrompts : CreatePrompt(P)
    \/ \E score \in ExportedScores : SaveQualityScore(score)
    \/ \E metrics \in ExportedMetrics : SaveEfficiencyMetrics(metrics)
    \/ \E days \in 0..(now \div TicksPerDay) : GetDailyTrends(days)

SpecTrends == InitTrends /\ [][NextTrends]_vars

----------------------------------------------------------------------------
(* SpecCache: two threads call get, set, remove, clear and len of one      *)
(* cache while the clock goes on.  A call is the steps between which        *)
(* another thread may run: taking the guard of the lock, each block of      *)
(* set's body, the statement that returns and drops the guard.              *)

store == <<fk, now, prompts, tags, prompt_tags, quality_scores,
           efficiency_metrics, version_history, sqlite_master, schema_version>>

Returned(op, key, val, pre) ==
    [op |-> op, id |-> key, ver |-> 0, ok |-> TRUE, err |-> "", val |-> val,
     pre |-> pre]

(* let data = self.data.read().ok()?  -- None when the lock is poisoned *)
CacheGet(t, key) ==
    /\ threads[t].pc = "idle"
    /\ IF cache.poisoned
       THEN /\ result' = Returned("cache_get", key, None, None)
            /\ UNCHANGED <<cache, threads>>
       ELSE /\ CanRead(cache)
            /\ cache' = [cache EXCEPT !.readers = @ \cup {t}]
            /\ threads' = [threads EXCEPT ![t] = [Idle EXCEPT !.pc = "get", !.key = key]]
            /\ UNCHANGED result
    /\ UNCHANGED store

(* the entry of the key when it expires after Instant::now() *)
CacheGetReturn(t) ==
    /\ threads[t].pc = "get"
    /\ LET key == threads[t].key
       IN  result' = Returned("cache_get", key,
                              IF key \in DOMAIN cache.data
                                    /\ cache.data[key].expires_at > now
                              THEN Some(cache.data[key].value) ELSE None,
                              None)
    /\ cache' = [cache EXCEPT !.readers = @ \ {t}]
    /\ threads' = [threads EXCEPT ![t] = Idle]
    /\ UNCHANGED store

(* if let Ok(mut data) = self.data.write() -- nothing is done when the     *)
(* lock is poisoned                                                         *)
CacheSet(t, key, value) ==
    /\ threads[t].pc = "idle"
    /\ IF cache.poisoned
       THEN /\ result' = Returned("cache_set_poisoned", key, None, None)
            /\ UNCHANGED <<cache, threads>>
       ELSE /\ CanWrite(cache)
            /\ cache' = [cache EXCEPT !.writer = Some(t)]
            /\ threads' = [threads EXCEPT ![t] =
                   [pc |-> "set_evict_expired", key |-> key, value |-> value,
                    before |-> Some([data |-> cache.data, order |-> cache.order,
                                     now |-> now])]]
            /\ UNCHANGED result
    /\ UNCHANGED store

(* if data.len() >= self.max_size { self.evict_expired(&mut data); } *)
CacheSetEvictExpired(t) ==
    /\ threads[t].pc = "set_evict_expired"
    /\ cache' = IF AtCapacity(cache)
                THEN [cache EXCEPT
                         !.data = evict_expired(@, now),
                         !.order = Reorder(@, evict_expired(cache.data, now), "")]
                ELSE cache
    /\ threads' = [threads EXCEPT ![t].pc = "set_remove_oldest",
                                  ![t].before = Some([@[1] EXCEPT !.now = now])]
    /\ UNCHANGED <<store, result>>

(* if data.len() >= self.max_size { data.keys().next() .. data.remove } -- *)
(* a HashMap iterates its keys in an order that is not specified: any key   *)
(* of the map may be the first                                              *)
CacheSetRemoveOldest(t) ==
    /\ threads[t].pc = "set_remove_oldest"
    /\ IF AtCapacity(cache) /\ DOMAIN cache.data # {}
       THEN \E oldest_key \in DOMAIN cache.data :
               cache' = [cache EXCEPT
                            !.data = Retain(@, DOMAIN @ \ {oldest_key}),
                            !.order = SelectRows(@, DOMAIN cache.data \ {oldest_key})]
       ELSE UNCHANGED cache
    /\ threads' = [threads EXCEPT ![t].pc = "set_insert"]
    /\ UNCHANGED <<store, result>>

(* data.insert(key, CacheEntry { value, expires_at: Instant::now() +       *)
(* self.ttl }).  Instant + Duration panics when the sum is not an Instant:  *)
(* the thread ends, its guard is dropped while panicking and the lock is    *)
(* poisoned.                                                                *)
CacheSetInsert(t) ==
    /\ threads[t].pc = "set_insert"
    /\ IF now + cache.ttl > I64Max
       THEN /\ cache' = [cache EXCEPT !.writer = None, !.poisoned = TRUE]
            /\ threads' = [threads EXCEPT ![t] = [Idle EXCEPT !.pc = "panicked"]]
            /\ result' = Returned("cache_set_panicked", threads[t].key, None, None)
       ELSE /\ cache' = [cache EXCEPT
                   !.data = Insert(@, threads[t].key,
                                   [value |-> threads[t].value,
                                    expires_at |-> now + cache.ttl]),
                   !.order = Reorder(@, Insert(cache.data, threads[t].key, None),
                                     threads[t].key),
                   !.writer = None]
            /\ threads' = [threads EXCEPT ![t] = Idle]
            /\ result' = Returned("cache_set", threads[t].key,
                                  [kept |-> DOMAIN cache.data], threads[t].before[1])
    /\ UNCHANGED store

CacheRemove(t, key) ==
    /\ threads[t].pc = "idle"
    /\ IF cache.poisoned
       THEN /\ result' = Returned("cache_remove", key, None, None)
            /\ UNCHANGED <<cache, threads>>
       ELSE /\ CanWrite(cache)
            /\ cache' = [cache EXCEPT !.writer = Some(t)]
            /\ threads' = [threads EXCEPT ![t] = [Idle EXCEPT !.pc = "remove", !.key = key]]
            /\ UNCHANGED result
    /\ UNCHANGED store

(* data.remove(key) *)
CacheRemoveReturn(t) ==
    /\ threads[t].pc = "remove"
    /\ cache' = [cache EXCEPT
                    !.data = Retain(@, DOMAIN @ \ {threads[t].key}),
                    !.order = SelectRows(@, DOMAIN cache.data \ {threads[t].key}),
                    !.writer = None]
    /\ threads' = [threads EXCEPT ![t] = Idle]
    /\ result' = Returned("cache_remove", threads[t].key, None, None)
    /\ UNCHANGED store

CacheClear(t) ==
    /\ threads[t].pc = "idle"
    /\ IF cache.poisoned
       THEN /\ result' = Returned("cache_clear", "", None, None)
            /\ UNCHANGED <<cache, threads>>
       ELSE /\ CanWrite(cache)
            /\ cache' = [cache EXCEPT !.writer = Some(t)]
            /\ threads' = [threads EXCEPT ![t] = [Idle EXCEPT !.pc = "clear"]]
            /\ UNCHANGED result
    /\ UNCHANGED store

(* data.clear() *)
CacheClearReturn(t) ==
    /\ threads[t].pc = "clear"
    /\ cache' = [cache EXCEPT !.data = << >>, !.order = << >>, !.writer = None]
    /\ threads' = [threads EXCEPT ![t] = Idle]
    /\ result' = Returned("cache_clear", "", None, None)
    /\ UNCHANGED store

(* self.data.read().map(|d| d.len()).unwrap_or(0) *)
CacheLen(t) ==
    /\ threads[t].pc = "idle"
    /\ IF cache.poisoned
       THEN /\ result' = Returned("cache_len", "", 0, None)
            /\ UNCHANGED <<cache, threads>>
       ELSE /\ CanRead(cache)
            /\ cache' = [cache EXCEPT !.readers = @ \cup {t}]
            /\ threads' = [threads EXCEPT ![t] = [Idle EXCEPT !.pc = "len"]]
            /\ UNCHANGED result
    /\ UNCHANGED store

CacheLenReturn(t) ==
    /\ threads[t].pc = "len"
    /\ result' = Returned("cache_len", "", Cardinality(DOMAIN cache.data), None)
    /\ cache' = [cache EXCEPT !.readers = @ \ {t}]
    /\ threads' = [threads EXCEPT ![t] = Idle]
    /\ UNCHANGED store

CacheValues == {1}

(* the time-to-live of no, one and more seconds than the Instants have *)
CacheTtls == {0, 1, U64Mod - 1}

InitCache ==
    /\ fk = FALSE
    /\ now = 0
    /\ prompts = << >>
    /\ tags = << >>
    /\ prompt_tags = {}
    /\ quality_scores = << >>
    /\ efficiency_metrics = << >>
    /\ version_history = << >>
    /\ sqlite_master = { }
    /\ schema_version = << >>
    /\ cache \in {Cache_new(ttl_secs, max_size) :
                     ttl_secs \in CacheTtls, max_size \in 0..2}
    /\ threads = [t \in Threads |-> Idle]
    /\ result = [op |-> "open", id |-> "", ver |-> 0, ok |-> TRUE, err |-> "",
                 val |-> None, pre |-> None]

NextCache ==
    \/ Tick
    \/ \E t \in Threads :
          \/ \E key \in Keys : CacheGet(t, key)
          \/ CacheGetReturn(t)
          \/ \E key \in Keys, value \in CacheValues : CacheSet(t, key, value)
          \/ CacheSetEvictExpired(t)
          \/ CacheSetRemoveOldest(t)
          \/ CacheSetInsert(t)
          \/ \E key \in Keys : CacheRemove(t, key)
          \/ CacheRemoveReturn(t)
          \/ CacheClear(t)
          \/ CacheClearReturn(t)
          \/ CacheLen(t)
          \/ CacheLenReturn(t)

SpecCache == InitCache /\ [][NextCache]_vars

----------------------------------------------------------------------------
(* Spec: two writers on one store file, each running save_version as its  *)
(* two statements; a statement is atomic, the pair is not                  *)

(* the SELECT of save_version: the writer holds the number it read *)
SaveVersionRead(t, P) ==
    /\ threads[t].pc = "idle"
    /\ threads' = [threads EXCEPT ![t] =
                     [pc |-> "save_version", key |-> P.id,
                      value |-> NextVersion(DB, P.id), before |-> Some(P)]]
    /\ result' = [op |-> "save_version_read", id |-> P.id,
                  ver |-> NextVersion(DB, P.id), ok |-> TRUE, err |-> "",
                  val |-> None, pre |-> None]
    /\ UNCHANGED <<fk, now, prompts, tags, prompt_tags, quality_scores,
                   efficiency_metrics, version_history, sqlite_master,
                   schema_version, cache>>

WriterDone(t, r) ==
    [pc |-> "idle", key |-> threads[t].key,
     value |-> IF r.ok THEN threads[t].value ELSE 0, before |-> None]

(* the INSERT of save_version, with the number read earlier *)
SaveVersionInsert(t) ==
    /\ threads[t].pc = "save_version"
    /\ Len(version_history) < MaxHistory
    /\ Commit(InsertVersion(DB, threads[t].before[1], threads[t].value).db)
    /\ threads' = [threads EXCEPT ![t] =
                     WriterDone(t, InsertVersion(DB, threads[t].before[1],
                                                 threads[t].value))]
    /\ result' = Call("save_version", threads[t].key, threads[t].value,
                      InsertVersion(DB, threads[t].before[1], threads[t].value),
                      None, [writer |-> t, threads |-> threads, db |-> DB])
    /\ UNCHANGED <<fk, now, sqlite_master, schema_version, cache>>

WriterPrompts ==
    {MkPrompt("p1", <<"a", "b">>, "h1", Some("code"), <<"t1">>, 0, 0, DefaultMetadata),
     MkPrompt("p1", <<"A", "c">>, "h2", None, << >>, 0, 0, DefaultMetadata)}

NextWriters ==
    \/ \E P \in WriterPrompts : CreatePrompt(P)
    \/ \E t \in Threads, P \in WriterPrompts : SaveVersionRead(t, P)
    \/ \E t \in Threads : SaveVersionInsert(t)

SpecWriters == Init /\ [][NextWriters]_vars

----------------------------------------------------------------------------
(* SpecIntegrity: every operation of the store that writes, on the ids p1  *)
(* and p2 whether or not a prompt has them                                  *)

IntegrityPrompts ==
    {MkPrompt("p1", <<"a", "b">>, "h1", Some("code"), <<"t1">>, 0, 0, DefaultMetadata),
     MkPrompt("p2", <<"A", "c">>, "h2", None, << >>, 0, 0, DefaultMetadata)}

IntegrityDocuments ==
    {data \in Documents : /\ Len(data.prompts) = 1
                           /\ data.prompts[1].id = "p2"
                           /\ data.quality_scores # << >>
                           /\ data.efficiency_metrics = << >>}

NextIntegrity ==
    \/ \E P \in IntegrityPrompts : CreatePrompt(P)
    \/ \E P \in IntegrityPrompts : UpdatePrompt(P)
    \/ \E id \in Ids : DeletePrompt(id)
    \/ \E score \in Scores : SaveQualityScore(score)
    \/ \E metrics \in Metrics : SaveEfficiencyMetrics(metrics)
    \/ \E P \in {Q \in IntegrityPrompts : Q.id = "p1"} : SaveVersion(P)
    \/ \E id \in Ids : RestoreVersion(id, 1)
    \/ \E data \in IntegrityDocuments : ImportFromJson(data)

SpecIntegrity == Init /\ [][NextIntegrity]_vars

----------------------------------------------------------------------------
(* SpecScoreFilter: list_prompts with filters that carry a quality-score   *)
(* range, over prompts with and without score rows                          *)

ScoreFilters ==
    {[MkFilter(c, t, None, None, None) EXCEPT !.min_quality_score = lo,
                                               !.max_quality_score = hi] :
        c \in {None, Some("code")},
        t \in {<< >>, <<"t1">>},
        lo \in {None, Some(80)},
        hi \in {None, Some(60)}}

NextScoreFilter ==
    \/ \E P \in CascadePrompts : CreatePrompt(P)
    \/ \E score \in Scores : SaveQualityScore(score)
    \/ \E filter \in ScoreFilters : ListPrompts(filter)

SpecScoreFilter == Init /\ [][NextScoreFilter]_vars

----------------------------------------------------------------------------
(* SpecReimport: a store imports its own export, again and again, and      *)
(* documents that bring a prompt of their own                               *)

NextReimport ==
    \/ \E P \in CascadePrompts : CreatePrompt(P)
    \/ \E score \in Scores : SaveQualityScore(score)
    \/ \E metrics \in Metrics : SaveEfficiencyMetrics(metrics)
    \/ ImportFromJson(export_to_json(DB))
    \/ \E data \in IntegrityDocuments : ImportFromJson(data)

SpecReimport == Init /\ [][NextReimport]_vars

----------------------------------------------------------------------------
(* SpecRestore: restore_version on prompts that have tags, a category, an  *)
(* execution time above i64::MAX and score rows, next to a second prompt    *)

RestoredPrompts ==
    {MkPrompt("p1", <<"a", "b">>, "h1", Some("code"), <<"t2", "t1">>, 0, 0, Metadata2),
     MkPrompt("p1", <<"A", "c">>, "h2", None, << >>, 0, 0, DefaultMetadata),
     MkPrompt("p2", <<"a", "b">>, "h1", Some("code"), <<"t1">>, 0, 0, DefaultMetadata)}

NextRestore ==
    \/ Tick
    \/ \E P \in {Q \in RestoredPrompts : Q.category # None} : CreatePrompt(P)
    \/ \E P \in {Q \in RestoredPrompts : Q.id = "p1"} : SaveVersion(P)
    \/ \E score \in {x \in Scores : x.prompt_id = "p1"} : SaveQualityScore(score)
    \/ \E id \in Ids, v \in 1..2 : RestoreVersion(id, v)

SpecRestore == Init /\ [][NextRestore]_vars

----------------------------------------------------------------------------
(* Reads of the current state *)

Live(id) == get_prompt(DB, id)
History(id) == get_version_history(DB, id)
Versions(id) == {version_history[i].version : i \in HistoryOf(DB, id)}
Snapshot(id, v) ==
    version_history[CHOOSE i \in HistoryOf(DB, id) : version_history[i].version = v]
Restored == result.op = "restore_version" /\ result.ok

(* C1: the snapshots of each prompt id carry exactly the versions 1..n,    *)
(* one row each, counted per prompt id, and get_version_history returns    *)
(* them in the order n, n-1, ..., 1.                                       *)
C1_VersionsContiguous ==
    \A id \in Ids :
        LET n == Cardinality(HistoryOf(DB, id))
        IN  /\ Versions(id) = 1..n
            /\ Len(History(id)) = n
            /\ \A k \in 1..n : History(id)[k].version = n - k + 1

C1_Witness ==
    /\ Restored
    /\ \E id \in Ids : Len(History(id)) >= 2
    /\ \A id \in Ids : Len(History(id)) >= 1

(* the row of version v among the rows a call found, as a set (no row: {}) *)
RowsAt(history, v) == {history[k] : k \in {j \in 1..Len(history) : history[j].version = v}}

(* C2: restore_version(id, v) on a stored prompt with a snapshot v makes   *)
(* the live content and content_hash those of snapshot v and makes the     *)
(* history exactly one entry longer.                                       *)
C2_RestoreSetsLive ==
    (/\ result.op = "restore_version"
     /\ result.pre.live # None
     /\ RowsAt(result.pre.history, result.ver) # {})
    => /\ result.ok
       /\ Live(result.id) # None
       /\ \A row \in RowsAt(result.pre.history, result.ver) :
             /\ Live(result.id)[1].content = row.content
             /\ Live(result.id)[1].content_hash = row.content_hash
       /\ Len(History(result.id)) = Len(result.pre.history) + 1

C2_Witness ==
    /\ Restored
    /\ result.ver = 1
    /\ Len(result.pre.history) = 2
    /\ result.pre.live[1].content # Live(result.id)[1].content
    /\ result.pre.live[1].content_hash # Live(result.id)[1].content_hash

(* C3 as claimed: restore_version(id, v) for a version without snapshot    *)
(* fails with VersionNotFound and changes neither the live prompt nor the  *)
(* history.                                                                *)
C3_VersionNotFound ==
    (/\ result.op = "restore_version"
     /\ RowsAt(result.pre.history, result.ver) = {})
    => /\ ~result.ok
       /\ result.err = "VersionNotFound"
       /\ Live(result.id) = result.pre.live
       /\ History(result.id) = result.pre.history

(* C4: a restore stores the live content and hash as snapshot n+1 before   *)
(* overwriting, and restore_version(id, n+1) right after brings them back. *)
C4_RestoreUndoable ==
    /\ Restored
       => /\ Len(History(result.id)) = Len(result.pre.history) + 1
          /\ History(result.id)[1].version = Len(result.pre.history) + 1
          /\ History(result.id)[1].content = result.pre.live[1].content
          /\ History(result.id)[1].content_hash = result.pre.live[1].content_hash
    /\ (/\ result.op = "restore_version"
        /\ result.pre.prev.op = "restore_version"
        /\ result.pre.prev.ok
        /\ result.pre.prev.id = result.id
        /\ result.ver = result.pre.prev.n + 1)
       => /\ result.ok
          /\ Live(result.id)[1].content = result.pre.prev.live[1].content
          /\ Live(result.id)[1].content_hash = result.pre.prev.live[1].content_hash

C4_Witness ==
    /\ Restored
    /\ result.pre.prev.op = "restore_version"
    /\ result.pre.prev.ok
    /\ result.pre.prev.id = result.id
    /\ result.ver = result.pre.prev.n + 1
    /\ Live(result.id)[1].content = result.pre.prev.live[1].content
    /\ Live(result.id)[1].content # result.pre.live[1].content

(* The scenario of C5, seen from the state after its last call: prompt id  *)
(* had one snapshot, taken of the state before an update_prompt that set   *)
(* the category to "reviewed" and kept the content, and was then restored  *)
(* to version 1.                                                           *)
C5_Scenario ==
    /\ Restored
    /\ result.ver = 1
    /\ Len(result.pre.history) = 1
    /\ result.pre.history[1].version = 1
    /\ result.pre.prev.op = "update_prompt"
    /\ result.pre.prev.ok
    /\ result.pre.prev.id = result.id
    /\ result.pre.prev.live # None
    /\ result.pre.prev.live[1].category # Some("reviewed")
    /\ result.pre.live[1].category = Some("reviewed")
    /\ result.pre.live[1].content = result.pre.prev.live[1].content
    /\ result.pre.history[1].content = result.pre.prev.live[1].content
    /\ result.pre.history[1].content_hash = result.pre.prev.live[1].content_hash

(* C5 as claimed: in the scenario restore_version(id, 1) reverts the live  *)
(* category to its value before the update and leaves 2 history entries.   *)
C5_CategoryReverts ==
    C5_Scenario
    => /\ Live(result.id)[1].category = result.pre.prev.live[1].category
       /\ Len(History(result.id)) = 2

(* C5 amended: the snapshot at version 1 holds the content and hash of the *)
(* state before the update and no category; restore_version(id, 1) leaves  *)
(* the live category at "reviewed", sets content and hash from snapshot 1  *)
(* and leaves 2 history entries.                                           *)
C5_CategoryKept ==
    C5_Scenario
    => /\ "category" \notin DOMAIN result.pre.history[1]
       /\ Live(result.id)[1].category = Some("reviewed")
       /\ Live(result.id)[1].content = result.pre.history[1].content
       /\ Live(result.id)[1].content_hash = result.pre.history[1].content_hash
       /\ Len(History(result.id)) = 2

C5_Witness == C5_Scenario /\ Live(result.id)[1].tags = <<"t1">>

----------------------------------------------------------------------------
(* Rows that name a prompt id, in any of the child tables *)
ChildRows(id) ==
    [links |-> {l \in prompt_tags : l[1] = id},
     scores |-> {i \in 1..Len(quality_scores) : quality_scores[i].prompt_id = id},
     metrics |-> {i \in 1..Len(efficiency_metrics) : efficiency_metrics[i].prompt_id = id},
     history |-> HistoryOf(DB, id)]

NoChildRows(id) ==
    /\ ChildRows(id).links = {}
    /\ ChildRows(id).scores = {}
    /\ ChildRows(id).metrics = {}
    /\ ChildRows(id).history = {}

RecreatedAfterDelete ==
    /\ result.op = "create_prompt"
    /\ result.ok
    /\ result.pre.prev.op = "delete_prompt"
    /\ result.pre.prev.id = result.id

(* C6 as claimed: after delete_prompt(id) no tag link, score, metrics or   *)
(* history row of that id remains and the reads return none / empty, also  *)
(* when a prompt with the same id is created again right afterwards (the   *)
(* new prompt then has its own tag links only).                            *)
C6_DeleteCascades ==
    /\ result.op = "delete_prompt"
       => /\ NoChildRows(result.id)
          /\ Live(result.id) = None
          /\ get_quality_score(DB, result.id) = None
          /\ get_efficiency_metrics(DB, result.id) = None
          /\ History(result.id) = << >>
    /\ RecreatedAfterDelete
       => /\ get_quality_score(DB, result.id) = None
          /\ get_efficiency_metrics(DB, result.id) = None
          /\ History(result.id) = << >>

(* C7 as claimed: create_prompt(P) for an id not in the store, then        *)
(* get_prompt(P.id), returns P's content, content_hash, category and       *)
(* metadata, and a tag list whose set is the set of P.tags.                *)
C7_CreateThenGet ==
    (result.op = "create_prompt" /\ result.pre.live = None)
    => /\ result.ok
       /\ Live(result.id) # None
       /\ Live(result.id)[1].content = result.val[1].content
       /\ Live(result.id)[1].content_hash = result.val[1].content_hash
       /\ Live(result.id)[1].category = result.val[1].category
       /\ Live(result.id)[1].metadata = result.val[1].metadata
       /\ Range(Live(result.id)[1].tags) = Range(result.val[1].tags)

(* C8: create_prompt(P) on an id already stored returns a database error   *)
(* and leaves the stored prompt, the tag table and count_prompts() as they *)
(* were.                                                                   *)
C8_DuplicateIdRejected ==
    (result.op = "create_prompt" /\ result.pre.live # None)
    => /\ ~result.ok
       /\ result.err = "DatabaseError"
       /\ Live(result.id) = result.pre.live
       /\ tags = result.pre.tags
       /\ count_prompts(DB) = result.pre.count

C8_Witness ==
    /\ result.op = "create_prompt"
    /\ result.pre.live # None
    /\ result.pre.live[1].content # result.val[1].content
    /\ Range(result.val[1].tags) \ Range(tags) # {}
    /\ count_prompts(DB) = 2

(* C9: update_prompt(P) on a stored id makes get_prompt(P.id) return P's   *)
(* content, content_hash, category, updated_at and metadata and exactly    *)
(* the set of P.tags as tags; the tags of every other prompt stay.         *)
C9_UpdateReplaces ==
    (result.op = "update_prompt" /\ result.pre.live # None)
    => /\ result.ok
       /\ Live(result.id) # None
       /\ Live(result.id)[1].content = result.val[1].content
       /\ Live(result.id)[1].content_hash = result.val[1].content_hash
       /\ Live(result.id)[1].category = result.val[1].category
       /\ Live(result.id)[1].updated_at = result.val[1].updated_at
       /\ Live(result.id)[1].metadata = result.val[1].metadata
       /\ Range(Live(result.id)[1].tags) = Range(result.val[1].tags)
       /\ \A i \in Ids \ {result.id} :
             get_tags_for_prompt(DB, i) = result.pre.others[i]

C9_Witness ==
    /\ result.op = "update_prompt"
    /\ result.pre.live # None
    /\ Range(result.pre.live[1].tags) \ Range(result.val[1].tags) # {}
    /\ result.pre.live[1].updated_at # result.val[1].updated_at
    /\ \E i \in Ids \ {result.id} : get_tags_for_prompt(DB, i) # << >>

----------------------------------------------------------------------------
(* content contains the search text *)
Contains(text, search) ==
    \E k \in 0..Len(text) :
        /\ k + Len(search) <= Len(text)
        /\ SubSeq(text, k + 1, k + Len(search)) = search

(* the predicates of a filter, as the claim reads them, on a stored prompt *)
Satisfies(P, filter) ==
    /\ filter.category # None => P.category = filter.category
    /\ filter.tags # <<>> => Range(P.tags) \cap Range(filter.tags) # {}
    /\ filter.search_query # None => Contains(P.content, filter.search_query[1])
    /\ filter.date_from # None => P.created_at >= filter.date_from[1]
    /\ filter.date_to # None => P.created_at <= filter.date_to[1]

(* C10 as claimed: without limit and offset list_prompts returns exactly   *)
(* the stored prompts that satisfy every populated predicate, each once.   *)
C10_ListExact ==
    (/\ result.op = "list_prompts"
     /\ result.pre.filter.limit = None
     /\ result.pre.filter.offset = None)
    => /\ {result.val[k].id : k \in 1..Len(result.val)}
             = {i \in DOMAIN prompts : Satisfies(Live(i)[1], result.pre.filter)}
       /\ \A k, m \in 1..Len(result.val) :
             result.val[k].id = result.val[m].id => k = m

----------------------------------------------------------------------------
(* the page of a listing: its offset, its limit and the rows it selects    *)
PageOffset(filter) == IF filter.offset = None THEN 0 ELSE filter.offset[1]

PageLimit(filter, m) == IF filter.limit = None THEN m ELSE filter.limit[1]

Min(a, b) == IF a <= b THEN a ELSE b

CreatedAt(id) == Live(id)[1].created_at

(* val holds the rows at positions k+1 .. k+Len(val) of the matches ids    *)
(* taken newest first: the row at place a has at most k+a-1 matches newer  *)
(* than it and at least k+a matches that are as new or newer               *)
PageOf(val, ids, k) ==
    /\ \A a \in 1..Len(val) : val[a].id \in ids
    /\ \A a, b \in 1..Len(val) : val[a].id = val[b].id => a = b
    /\ \A a, b \in 1..Len(val) : a < b => val[a].created_at >= val[b].created_at
    /\ \A a \in 1..Len(val) :
          /\ Cardinality({j \in ids : CreatedAt(j) > val[a].created_at}) <= k + a - 1
          /\ Cardinality({j \in ids : CreatedAt(j) >= val[a].created_at}) >= k + a

Paged ==
    LET filter == result.pre.filter
        ids == Selected(DB, filter)
        m == Cardinality(ids)
        k == PageOffset(filter)
        rest == IF k >= m THEN 0 ELSE m - k
    IN  /\ result.ok
        /\ Len(result.val) = Min(PageLimit(filter, m), rest)
        /\ PageOf(result.val, ids, k)

(* C11 as claimed: list_prompts returns its matches newest first; limit n  *)
(* keeps the first n (none for 0), offset k drops the first k, both give   *)
(* the matches at places k .. k+n-1, and an offset at or beyond the number *)
(* of matches gives an empty list and no error.                            *)
C11_Paged == result.op = "list_prompts" => Paged

(* C11 for limit and offset values that fit an i64 *)
C11_PagedWithinI64 ==
    (/\ result.op = "list_prompts"
     /\ IntegerLiteral(result.pre.filter.limit)
     /\ IntegerLiteral(result.pre.filter.offset)) => Paged

(* a page from inside the matches: offset 1, limit 1, three matches *)
C11_Witness ==
    /\ result.op = "list_prompts"
    /\ result.pre.filter.offset = Some(1)
    /\ result.pre.filter.limit = Some(1)
    /\ Cardinality(Selected(DB, result.pre.filter)) = 3
    /\ Len(result.val) = 1

(* an offset that no i64 holds *)
C11_OffsetAboveI64 ==
    /\ result.op = "list_prompts"
    /\ result.pre.filter.offset = Some(I64Max + 1)
    /\ result.pre.filter.limit = None
    /\ ~result.ok

----------------------------------------------------------------------------
(* the values the words of a query state for some fields, in their order   *)
ValuesFor(words, fields) ==
    LET For(w) == w.field \in fields
        sel == SelectSeq(words, For)
    IN  [i \in 1..Len(sel) |-> sel[i].value]

LastValue(words, fields) ==
    LET vs == ValuesFor(words, fields)
    IN  IF vs = << >> THEN None ELSE Some(vs[Len(vs)])

SearchText(words) ==
    LET vs == ValuesFor(words, {"search_query"})
    IN  IF vs = << >> THEN None ELSE Some(join(vs, <<" ">>))

FieldsAndSearch(words, filter) ==
    /\ filter.category = LastValue(words, {"category"})
    /\ filter.tags = ValuesFor(words, {"tags"})
    /\ filter.min_quality_score = LastValue(words, {"min_quality_score"})
    /\ filter.max_quality_score = LastValue(words, {"max_quality_score"})
    /\ filter.date_from = LastValue(words, {"date_from"})
    /\ filter.date_to = LastValue(words, {"date_to"})
    /\ filter.limit = LastValue(words, {"limit"})
    /\ filter.offset = LastValue(words, {"offset"})
    /\ filter.search_query = SearchText(words)

(* C12 as claimed: parse_filter_query puts every word with a field name of *)
(* the grammar (category/cat, tag, quality/q, date/created, limit, offset, *)
(* in any case) into its filter field and joins the other words, free text *)
(* and words with an unknown field name, with single spaces in their order *)
(* into search_query.                                                      *)
C12_FieldsAndSearch ==
    result.op = "parse_filter_query"
    => /\ result.ok
       /\ FieldsAndSearch(result.pre.words, result.val[1])

(* C12 for queries without an efficiency word and without a skip word *)
C12_WithoutEfficiencyAndSkip ==
    (/\ result.op = "parse_filter_query"
     /\ \A i \in 1..Len(result.pre.words) :
           result.pre.words[i].text \notin {<<"e", "f", "f", ":", ">", "5">>,
                                            <<"s", "k", "i", "p", ":", "3">>})
    => /\ result.ok
       /\ FieldsAndSearch(result.pre.words, result.val[1])

(* the query "category:code tag:rust quality:>80 fibonacci" parsed *)
C12_Witness ==
    /\ result.op = "parse_filter_query"
    /\ Written(result.pre.words) =
         <<"c", "a", "t", "e", "g", "o", "r", "y", ":", "c", "o", "d", "e", " ", "t", "a", "g", ":", "r", "u", "s", "t", " ", "q", "u", "a", "l", "i", "t", "y", ":", ">", "8", "0", " ", "f", "i", "b", "o", "n", "a", "c", "c", "i">>
    /\ result.ok
    /\ result.val[1].category = Some(<<"c", "o", "d", "e">>)
    /\ result.val[1].tags = <<<<"r", "u", "s", "t">>>>
    /\ result.val[1].min_quality_score = Some(80)
    /\ result.val[1].search_query = Some(<<"f", "i", "b", "o", "n", "a", "c", "c", "i">>)

(* a quality bound overwritten by an efficiency word that follows it *)
C12_EfficiencyOverQuality ==
    /\ result.op = "parse_filter_query"
    /\ Written(result.pre.words) = <<"q", "u", "a", "l", "i", "t", "y", ":", ">", "8", "0", " ", "e", "f", "f", ":", ">", "5">>
    /\ result.ok
    /\ result.val[1].min_quality_score = Some(5)

----------------------------------------------------------------------------
Malformed(words) == \E i \in 1..Len(words) : words[i].field = "malformed"

(* C13: a query with a word that states a bad value for a numeric or date  *)
(* field (quality, efficiency, date, limit, offset) is refused as a whole: *)
(* parse_filter_query returns a ConfigError and no filter, wherever the    *)
(* word stands and whatever the other words are.                           *)
C13_MalformedFailsParse ==
    (result.op = "parse_filter_query" /\ Malformed(result.pre.words))
    => /\ ~result.ok
       /\ result.err = ConfigError
       /\ result.val = None

(* a bad limit after a tag, a quality bound and a search term *)
C13_Witness ==
    /\ result.op = "parse_filter_query"
    /\ Written(result.pre.words) = <<"t", "a", "g", ":", "r", "u", "s", "t", " ", "q", "u", "a", "l", "i", "t", "y", ":", ">", "8", "0", " ", "f", "i", "b", "o", "n", "a", "c", "c", "i", " ", "l", "i", "m", "i", "t", ":", "-", "1">>
    /\ ~result.ok
    /\ result.err = ConfigError
    /\ result.val = None

----------------------------------------------------------------------------
(* the score bounds of a filter: PromptFilter has one pair of them, which  *)
(* tokens_to_filter uses for quality and for efficiency words              *)
PointRange(filter, value) ==
    /\ filter.min_quality_score = Some(value)
    /\ filter.max_quality_score = Some(value)

(* C14 as claimed: a quality word or an efficiency word without comparator *)
(* (quality:85, efficiency:85) sets the lower and the upper bound of its   *)
(* score to the stated value.                                              *)
C14_PointRange ==
    (result.op = "parse_filter_query" /\ result.ok)
    => LET q == ValuesFor(result.pre.words, {"quality"})
           e == ValuesFor(result.pre.words, {"efficiency"})
       IN  /\ (q # << >> /\ e = << >>) => PointRange(result.val[1], q[Len(q)])
           /\ (e # << >> /\ q = << >>) => PointRange(result.val[1], e[Len(e)])

(* C14 for quality words alone *)
C14_QualityPointRange ==
    (result.op = "parse_filter_query" /\ result.ok)
    => LET q == ValuesFor(result.pre.words, {"quality"})
       IN  q # << >> => PointRange(result.val[1], q[Len(q)])

(* "quality:85" gives the range 85..85 *)
C14_Witness ==
    /\ result.op = "parse_filter_query"
    /\ Written(result.pre.words) = <<"q", "u", "a", "l", "i", "t", "y", ":", "8", "5">>
    /\ result.ok
    /\ PointRange(result.val[1], 85)

(* "efficiency:85" gives the filter of the empty query *)
C14_EfficiencyPointIgnored ==
    /\ result.op = "parse_filter_query"
    /\ Written(result.pre.words) = <<"e", "f", "f", "i", "c", "i", "e", "n", "c", "y", ":", "8", "5">>
    /\ result.ok
    /\ result.val[1] = DefaultFilter

----------------------------------------------------------------------------
(* the ledger as a run of run_migrations found it *)
VersionsOf(ledger) == [i \in 1..Len(ledger) |-> ledger[i].version]

CurrentOf(ledger) == get_current_version([objects |-> { }, ledger |-> ledger])

(* the statement the fault names is one the run executes *)
FaultHits(pre) ==
    /\ pre.fault.step # "none"
    /\ pre.fault.version > CurrentOf(pre.ledger)
    /\ (pre.fault.step = "body" /\ pre.fault.version = 1) => "prompts" \notin pre.objects

Upto(c, n) == [k \in 1..(n - c) |-> c + k]

(* C15: without a failing statement, run_migrations on a ledger at         *)
(* c < CURRENT_VERSION applies c+1 .. CURRENT_VERSION in this order and     *)
(* appends one ledger row for each, after which get_migration_history      *)
(* lists 1 .. CURRENT_VERSION; a run that follows a run that returned Ok    *)
(* returns Ok, applies nothing and adds no row.                             *)
C15_MigrateToCurrent ==
    result.op = "run_migrations"
    => LET c == CurrentOf(result.pre.ledger)
           history == get_migration_history(M).val
       IN  /\ (c < CURRENT_VERSION /\ ~FaultHits(result.pre))
              => /\ result.ok
                 /\ result.val = Upto(c, CURRENT_VERSION)
                 /\ VersionsOf(schema_version)
                      = VersionsOf(result.pre.ledger) \o Upto(c, CURRENT_VERSION)
                 /\ [k \in 1..Len(history) |-> history[k][1]] = Upto(0, CURRENT_VERSION)
           /\ (result.pre.prev.op = "run_migrations" /\ result.pre.prev.ok)
              => /\ result.ok
                 /\ result.val = << >>
                 /\ schema_version = result.pre.ledger
                 /\ sqlite_master = result.pre.objects

(* a run on a ledger at version 1 that applies migration 2 alone *)
C15_Witness ==
    /\ result.op = "run_migrations"
    /\ VersionsOf(result.pre.ledger) = <<1>>
    /\ result.ok
    /\ result.val = <<2>>
    /\ VersionsOf(schema_version) = <<1, 2>>

(* a second run after a run from an empty file that returned Ok *)
C15_SecondRun ==
    /\ result.op = "run_migrations"
    /\ result.pre.prev.op = "run_migrations"
    /\ result.pre.prev.ok
    /\ result.pre.fault.step = "ledger"
    /\ result.ok
    /\ result.val = << >>

(* C16: when the body of migration v or the write of its ledger row fails, *)
(* run_migrations returns an error at once, applies no migration above v    *)
(* and leaves the largest version of the ledger at v-1.                     *)
C16_FailureStopsRun ==
    (result.op = "run_migrations" /\ FaultHits(result.pre))
    => LET v == result.pre.fault.version
       IN  /\ ~result.ok
           /\ \A k \in 1..Len(result.val) :
                 /\ result.val[k] <= v
                 /\ result.pre.fault.step = "body" => result.val[k] < v
           /\ get_current_version(M) = v - 1

(* the ledger row of migration 1 fails on an empty file: migration 2 is    *)
(* not applied                                                              *)
C16_Witness ==
    /\ result.op = "run_migrations"
    /\ result.pre.ledger = << >>
    /\ result.pre.fault = [step |-> "ledger", version |-> 1, done |-> 0]
    /\ ~result.ok
    /\ result.val = <<1>>
    /\ schema_version = << >>
    /\ "prompts_fts" \notin sqlite_master

(* C17 as claimed: needs_migration changes neither the set of schema       *)
(* objects nor the ledger, also on a store without a ledger table.          *)
C17_NeedsMigrationPure ==
    result.op = "needs_migration"
    => /\ sqlite_master = result.pre.objects
       /\ schema_version = result.pre.ledger

(* C17 on stores that have the ledger table *)
C17_PureWithLedgerTable ==
    (result.op = "needs_migration" /\ "schema_version" \in result.pre.objects)
    => /\ sqlite_master = result.pre.objects
       /\ schema_version = result.pre.ledger

(* needs_migration on a store without ledger table creates the table *)
C17_LedgerTableCreated ==
    /\ result.op = "needs_migration"
    /\ "schema_version" \notin result.pre.objects
    /\ "schema_version" \in sqlite_master

(* C18 as claimed: Database::new runs run_migrations, so that the ledger   *)
(* of an opened store is at CURRENT_VERSION before the first call of the    *)
(* record store.                                                            *)
C18_MigratedAtOpen ==
    (\/ result.op = "open"
     \/ (result.op = "create_prompt" /\ result.pre.prev.op = "open"))
    => /\ "schema_version" \in sqlite_master
       /\ get_current_version(M) = CURRENT_VERSION

(* a prompt created in a store opened on an empty file, no ledger there *)
C18_CreateWithoutLedger ==
    /\ result.op = "create_prompt"
    /\ result.ok
    /\ result.pre.prev.op = "open"
    /\ "schema_version" \notin sqlite_master

----------------------------------------------------------------------------
Imported(n) ==
    /\ result.ok
    /\ result.val.imported = n
    /\ result.val.count = result.pre.count + n

(* C19 as claimed: for every store, importing its export into an empty     *)
(* store returns the number of its prompts and gives a store of as many     *)
(* prompts; importing the export into the store itself returns 0 and        *)
(* leaves count_prompts as it was.                                          *)
C19_ExportImportCount ==
    /\ result.op = "import_into_empty"
       => /\ result.ok
          /\ result.val.imported = result.pre.count
          /\ result.val.count = result.pre.count
    /\ result.op = "import_from_json"
       => /\ Imported(0)
          /\ count_prompts(DB) = result.pre.count

DistinctHashes ==
    \A i, j \in DOMAIN prompts :
        prompts[i].content_hash = prompts[j].content_hash => i = j

(* C19 for stores in which no two prompts have the same content_hash *)
C19_DistinctHashes ==
    DistinctHashes => C19_ExportImportCount

(* two prompts exported and imported into an empty store *)
C19_Witness ==
    /\ result.op = "import_into_empty"
    /\ DistinctHashes
    /\ result.pre.count = 2
    /\ result.val.imported = 2

(* two prompts of the same content exported, one imported *)
C19_SameHashSkipped ==
    /\ result.op = "import_into_empty"
    /\ result.pre.count = 2
    /\ result.ok
    /\ result.val.imported = 1
    /\ result.val.count = 1

EntriesFor(entries, id) == {k \in 1..Len(entries) : entries[k].prompt_id = id}

(* C20 as claimed: the exported document holds for each prompt id at most  *)
(* one quality score and at most one efficiency metrics entry, the latest   *)
(* of each.                                                                 *)
C20_LatestOnly ==
    result.op = "export_to_json"
    => \A id \in Ids :
         /\ Cardinality(EntriesFor(result.val.quality_scores, id)) <= 1
         /\ \A k \in EntriesFor(result.val.quality_scores, id) :
               ScoreFromValue(result.val.quality_scores[k]) = get_quality_score(DB, id)
         /\ Cardinality(EntriesFor(result.val.efficiency_metrics, id)) <= 1
         /\ \A k \in EntriesFor(result.val.efficiency_metrics, id) :
               MetricsFromValue(result.val.efficiency_metrics[k])
                   = get_efficiency_metrics(DB, id)

(* C20 for the efficiency metrics alone *)
C20_LatestMetricsOnly ==
    result.op = "export_to_json"
    => \A id \in Ids :
         /\ Cardinality(EntriesFor(result.val.efficiency_metrics, id)) <= 1
         /\ \A k \in EntriesFor(result.val.efficiency_metrics, id) :
               MetricsFromValue(result.val.efficiency_metrics[k])
                   = get_efficiency_metrics(DB, id)

(* two analysis runs saved for p1: both scores are in the document, one    *)
(* metrics entry is                                                         *)
C20_EveryScoreExported ==
    /\ result.op = "export_to_json"
    /\ Cardinality(EntriesFor(result.val.quality_scores, "p1")) = 2
    /\ Len(efficiency_metrics) = 2
    /\ Cardinality(EntriesFor(result.val.efficiency_metrics, "p1")) = 1

----------------------------------------------------------------------------
(* the k-th prompt of the document is not skipped: no prompt of the store  *)
(* and no earlier prompt of the document has its content_hash               *)
NewPrompt(d, values, k) ==
    values[k].content_hash \notin
        {d.prompts[i].content_hash : i \in DOMAIN d.prompts}
        \cup {values[j].content_hash : j \in 1..(k - 1)}

(* a prompt of the document that is not skipped has an id that the store   *)
(* or an earlier inserted prompt of the document has                        *)
InsertFails(d, values) ==
    \E k \in 1..Len(values) :
        /\ NewPrompt(d, values, k)
        /\ values[k].id \in DOMAIN d.prompts
               \cup {values[j].id : j \in {i \in 1..(k - 1) : NewPrompt(d, values, i)}}

(* C21: import_from_json returns an error when the insert of a prompt      *)
(* fails; otherwise it returns Ok with the number of prompts it inserted,   *)
(* whether or not the insert of a quality-score or efficiency-metrics row   *)
(* failed.                                                                  *)
C21_ImportFailures ==
    result.op = "import_from_json"
    => IF InsertFails(result.pre.db, result.pre.data.prompts)
       THEN ~result.ok /\ result.err = "DatabaseError"
       ELSE /\ result.ok
            /\ result.val.imported =
                   Cardinality({k \in 1..Len(result.pre.data.prompts) :
                                   NewPrompt(result.pre.db, result.pre.data.prompts, k)})

(* with foreign keys enforced: one prompt imported, and a score and a      *)
(* metrics entry of the document, for an id that is not in the store, were  *)
(* refused and ignored                                                      *)
C21_Witness ==
    /\ result.op = "import_from_json"
    /\ fk
    /\ result.ok
    /\ result.val.imported = 1
    /\ \E k \in 1..Len(result.pre.data.quality_scores) :
           result.pre.data.quality_scores[k].prompt_id \notin DOMAIN prompts
    /\ \E k \in 1..Len(result.pre.data.efficiency_metrics) :
           result.pre.data.efficiency_metrics[k].prompt_id \notin DOMAIN prompts

(* the second prompt of a document has the id of a stored prompt under     *)
(* another hash: the import fails after it inserted the first               *)
C21_PromptInsertFailed ==
    /\ result.op = "import_from_json"
    /\ ~result.ok
    /\ Len(result.pre.data.prompts) = 2
    /\ result.val.count = result.pre.count + 1

----------------------------------------------------------------------------
(* the day a stored prompt was created on *)
CreatedDay(id) == DayNumber(sql_date(prompts[id].created_at))

(* the prompts created inside the window of the last call *)
InsideWindow ==
    {id \in DOMAIN prompts : CreatedDay(id) >= (now \div TicksPerDay) - result.pre.days}

DailyCounts ==
    /\ Len(result.val) = Cardinality({CreatedDay(id) : id \in InsideWindow})
    /\ \A id \in InsideWindow :
           \E k \in 1..Len(result.val) :
               /\ result.val[k].date = sql_date(prompts[id].created_at)
               /\ result.val[k].count =
                      Cardinality({i \in InsideWindow : CreatedDay(i) = CreatedDay(id)})

(* C22 as claimed: get_daily_trends returns one record per day on which a  *)
(* prompt inside the window was created, and the count of the record is     *)
(* the number of prompts created on that day, however many score and        *)
(* metrics rows the prompts have.                                           *)
C22_DailyCount ==
    result.op = "get_daily_trends" => DailyCounts

(* C22 for stores in which no prompt has more than one quality-score row   *)
(* and more than one efficiency-metrics row                                 *)
C22_CountWithSingleRows ==
    /\ result.op = "get_daily_trends"
    /\ \A id \in DOMAIN prompts :
           /\ Cardinality(LeftJoin(quality_scores, id)) = 1
           /\ Cardinality(LeftJoin(efficiency_metrics, id)) = 1
    => DailyCounts

(* one prompt with two quality scores and two metrics rows: its day is     *)
(* counted as 4                                                             *)
C22_JoinedRowsCounted ==
    /\ result.op = "get_daily_trends"
    /\ DOMAIN prompts = {"p1"}
    /\ Len(result.val) = 1
    /\ result.val[1].count = 4

----------------------------------------------------------------------------
(* the thread is inside a call that holds the write guard *)
Writing(t) ==
    threads[t].pc \in {"set_evict_expired", "set_remove_oldest", "set_insert",
                       "remove", "clear"}

(* the thread is inside a call that holds a read guard *)
Reading(t) == threads[t].pc \in {"get", "len"}

(* C23: for a cache with max_size >= 1, in every state of every            *)
(* interleaving of the threads' calls a thread inside set, remove or clear  *)
(* is the only thread inside a call, a thread inside get or len sees no     *)
(* call that changes the map in progress, and the map has at most max_size  *)
(* entries, so that len() returns at most max_size.                         *)
C23_AtomicAndBounded ==
    cache.max_size >= 1
    => /\ \A t \in Threads :
              Writing(t) => /\ cache.writer = Some(t)
                            /\ cache.readers = {}
                            /\ \A u \in Threads \ {t} : ~Writing(u) /\ ~Reading(u)
       /\ \A t \in Threads :
              Reading(t) => t \in cache.readers /\ cache.writer = None
       /\ Cardinality(DOMAIN cache.data) <= cache.max_size
       /\ result.op = "cache_len" => result.val <= cache.max_size

(* a set on a full cache of two entries has returned, the cache is full    *)
(* again, and both threads are inside get at the same time                  *)
C23_Witness ==
    /\ result.op = "cache_set"
    /\ cache.max_size = 2
    /\ Cardinality(DOMAIN result.pre.data) = 2
    /\ Cardinality(DOMAIN cache.data) = 2
    /\ \A t \in Threads : threads[t].pc = "get"

(* with max_size = 0 the map holds an entry after the first set *)
C23_ZeroSizeExceeded ==
    /\ cache.max_size = 0
    /\ result.op = "cache_len"
    /\ result.val = 1

----------------------------------------------------------------------------
(* of the last set: the entries that had expired when evict_expired looked *)
(* at the clock, and the entries that were in the map when set took the     *)
(* lock and were not when it inserted                                       *)
Expired == {k \in DOMAIN result.pre.data :
               result.pre.data[k].expires_at <= result.pre.now}

Evicted == DOMAIN result.pre.data \ result.val.kept

SetAtCapacity ==
    /\ result.op = "cache_set"
    /\ Cardinality(DOMAIN result.pre.data) >= cache.max_size

(* C24 as claimed: a set on a cache at capacity evicts the expired         *)
(* entries, all of them and no other; when no entry has expired it evicts   *)
(* one entry, the one that was inserted first.                              *)
C24_ExpiredThenOldest ==
    SetAtCapacity
    => IF Expired # {} THEN Evicted = Expired
       ELSE result.pre.order = << >> \/ Evicted = {result.pre.order[1]}

(* C24 without the choice of the entry: when no entry has expired, one     *)
(* entry of the map is evicted                                              *)
C24_ExpiredThenOne ==
    SetAtCapacity
    => IF Expired # {} THEN Evicted = Expired
       ELSE result.pre.order = << >> \/ Cardinality(Evicted) = 1

(* two live entries, and the one inserted last is evicted *)
C24_NewerEvicted ==
    /\ SetAtCapacity
    /\ Expired = {}
    /\ Len(result.pre.order) = 2
    /\ Evicted = {result.pre.order[2]}

----------------------------------------------------------------------------
(* C25 *)

(* the writer other than the one whose INSERT ran last *)
OtherWriter == CHOOSE u \in Threads : u # result.pre.writer

(* the two calls raced: the other writer's call for the same prompt is     *)
(* over and stored the number this writer had read, so each read the       *)
(* maximum before the other inserted                                       *)
BothReadFirst ==
    /\ result.op = "save_version"
    /\ result.id \in DOMAIN result.pre.db.prompts
    /\ result.pre.threads[OtherWriter].pc = "idle"
    /\ result.pre.threads[OtherWriter].key = result.id
    /\ result.pre.threads[OtherWriter].value = result.ver

SameVersionRows ==
    {i \in HistoryOf(DB, result.id) : version_history[i].version = result.ver}

(* C25: when two save_version calls for one prompt id both read the       *)
(* maximum before either inserts, the second INSERT succeeds as the first  *)
(* did and the history holds two snapshots of the prompt with the same     *)
(* version number: no constraint and no transaction prevents it            *)
C25_SameVersionTwice ==
    BothReadFirst => result.ok /\ Cardinality(SameVersionRows) >= 2

C25_Witness ==
    /\ BothReadFirst
    /\ result.ok
    /\ Cardinality(SameVersionRows) = 2
    /\ \E i \in SameVersionRows, j \in SameVersionRows :
          version_history[i].content # version_history[j].content

----------------------------------------------------------------------------
(* C26 *)

(* the objects of the migrations above the ledger's version *)
PendingObjects(ledger) ==
    (IF CurrentOf(ledger) < 1 THEN Range(V1Body) ELSE {})
    \cup (IF CurrentOf(ledger) < 2 THEN Range(V2Body) ELSE {})

(* the ledger is behind and objects of a pending migration exist already *)
LedgerBehindSchema ==
    /\ result.op = "run_migrations"
    /\ CurrentOf(result.pre.ledger) < CURRENT_VERSION
    /\ PendingObjects(result.pre.ledger) \cap result.pre.objects # {}
    /\ ~FaultHits(result.pre)

(* C26: a run that starts with the ledger behind while objects of a       *)
(* pending migration exist, and in which no statement fails, returns Ok    *)
(* and leaves every object of migrations 1..CURRENT_VERSION in the schema  *)
C26_SchemaComplete ==
    LedgerBehindSchema
    => result.ok /\ (Range(V1Body) \cup Range(V2Body)) \subseteq sqlite_master

(* such a run returns Ok and brings the ledger to CURRENT_VERSION *)
C26_LedgerCurrent ==
    LedgerBehindSchema
    => result.ok /\ CurrentOf(schema_version) = CURRENT_VERSION

(* a run after initialize_schema that returns Ok and leaves the schema     *)
(* without the index of migration 1 that initialize_schema does not create *)
C26_IndexMissing ==
    /\ LedgerBehindSchema
    /\ InitialSchema \subseteq result.pre.objects
    /\ result.ok
    /\ "idx_prompts_status" \notin sqlite_master

----------------------------------------------------------------------------
(* C27 *)

(* the prompt ids that tag links, score rows, metrics rows and history     *)
(* rows refer to                                                           *)
ReferencedIds ==
    {l[1] : l \in prompt_tags}
    \cup {quality_scores[i].prompt_id : i \in 1..Len(quality_scores)}
    \cup {efficiency_metrics[i].prompt_id : i \in 1..Len(efficiency_metrics)}
    \cup {version_history[i].prompt_id : i \in 1..Len(version_history)}

(* C27: after any sequence of the writing operations, every tag link,     *)
(* score row, metrics row and history row refers to a prompt of the        *)
(* prompts table                                                           *)
C27_ReferentialIntegrity == ReferencedIds \subseteq DOMAIN prompts

(* the same on a connection that enforces foreign keys *)
C27_WithEnforcement == fk => ReferencedIds \subseteq DOMAIN prompts

(* a score row saved for an id that no prompt has *)
C27_OrphanScore ==
    /\ result.op = "save_quality_score"
    /\ result.ok
    /\ result.id \notin DOMAIN prompts
    /\ \E i \in 1..Len(quality_scores) : quality_scores[i].prompt_id = result.id

----------------------------------------------------------------------------
(* C28 *)

WithoutScoreRange(filter) ==
    [filter EXCEPT !.min_quality_score = None, !.max_quality_score = None]

----------------------------------------------------------------------------
(* C29 *)

(* the rows a call appended to a table *)
Appended(after, before) == SubSeq(after, Len(before) + 1, Len(after))

(* the entries of a document's list whose prompt id is in the store *)
OfStoredPrompts(rows) ==
    LET InStore(r) == r.prompt_id \in DOMAIN prompts
    IN  SelectSeq(rows, InStore)

Reimport ==
    /\ result.op = "import_from_json"
    /\ result.pre.data = export_to_json(result.pre.db)

(* C29: import_from_json appends, in the document's order, every          *)
(* quality-score and efficiency-metrics entry of the document whose        *)
(* prompt id is in the store, whatever happened to the document's          *)
(* prompts; the import of the store's own export creates no prompt, keeps  *)
(* the prompt count and makes each score table longer by the number of     *)
(* entries the export has for it                                           *)
C29_ReimportAppends ==
    (result.op = "import_from_json" /\ result.ok)
    => /\ OfStoredPrompts(Appended(quality_scores, result.pre.db.quality_scores))
             = OfStoredPrompts(result.pre.data.quality_scores)
       /\ OfStoredPrompts(Appended(efficiency_metrics,
                                    result.pre.db.efficiency_metrics))
             = OfStoredPrompts(result.pre.data.efficiency_metrics)
       /\ Reimport
             => /\ result.val.imported = 0
                /\ result.val.count = result.pre.count
                /\ Len(quality_scores) = Len(result.pre.db.quality_scores)
                       + Len(get_all_quality_scores(result.pre.db))
                /\ Len(efficiency_metrics) = Len(result.pre.db.efficiency_metrics)
                       + Len(result.pre.data.efficiency_metrics)

(* the import of the store's own export: no prompt created, one more      *)
(* score row and one more metrics row than before                          *)
C29_Witness ==
    /\ Reimport
    /\ result.ok
    /\ result.val.imported = 0
    /\ result.pre.count >= 1
    /\ result.val.count = result.pre.count
    /\ Len(result.pre.db.quality_scores) = 1
    /\ Len(quality_scores) = 2
    /\ Len(result.pre.db.efficiency_metrics) = 1
    /\ Len(efficiency_metrics) = 2

----------------------------------------------------------------------------
(* C30 *)

(* the columns of a prompts row that restore_version leaves as they were *)
KeptColumns == {"category", "created_at", "model", "execution_time_ms"}

RestoreDone == result.op = "restore_version" /\ result.ok

(* C30: a restore_version that returns Ok changes, of the whole store,    *)
(* the content, content_hash and updated_at of the live prompt and appends *)
(* one history row of that prompt; the prompt's other columns and tag      *)
(* links, the rows of every other prompt, the tags, every score and        *)
(* metrics row and every earlier history row are as before the call        *)
C30_RestoreFrame ==
    RestoreDone
    => /\ DOMAIN prompts = DOMAIN result.pre.db.prompts
       /\ \A id \in DOMAIN prompts \ {result.id} :
             prompts[id] = result.pre.db.prompts[id]
       /\ \A col \in KeptColumns :
             prompts[result.id][col] = result.pre.db.prompts[result.id][col]
       /\ tags = result.pre.db.tags
       /\ prompt_tags = result.pre.db.prompt_tags
       /\ quality_scores = result.pre.db.quality_scores
       /\ efficiency_metrics = result.pre.db.efficiency_metrics
       /\ Len(version_history) = Len(result.pre.db.version_history) + 1
       /\ SubSeq(version_history, 1, Len(result.pre.db.version_history))
             = result.pre.db.version_history
       /\ version_history[Len(version_history)].prompt_id = result.id

(* a restore that changed the content of a prompt with two tags, a        *)
(* category, an execution time above i64::MAX and a score row, while a     *)
(* second prompt is in the store                                           *)
C30_Witness ==
    /\ RestoreDone
    /\ prompts[result.id].content # result.pre.db.prompts[result.id].content
    /\ prompts[result.id].updated_at # result.pre.db.prompts[result.id].updated_at
    /\ prompts[result.id].category # None
    /\ Cardinality({l \in prompt_tags : l[1] = result.id}) = 2
    /\ get_prompt(DB, result.id)[1].metadata.execution_time_ms = Some(U64Mod - 1)
    /\ quality_scores # << >>
    /\ Cardinality(DOMAIN prompts) = 2

====
